---- MODULE Spec2Model ----
(***************************************************************************)
(* Model of the wrangle dispatch and column-projection core of WranglesPY: *)
(*   - wrangles/utils.py: wildcard_expansion_dict, wildcard_expansion,     *)
(*     get_nested_function, add_special_parameters                         *)
(*   - wrangles/recipe_wrangles/extract.py: the fan-out wrappers           *)
(*   - the execution of one recipe step with its where clause              *)
(*                                                                         *)
(* A text is a sequence of one-character strings.  Three multi-character  *)
(* tokens abbreviate fixed pieces of text: "regex:" (the six-character     *)
(* prefix), GROUP (the capture group a wildcard is rewritten to) and       *)
(* GroupRef(n) (the group reference a wildcard of a rename value is        *)
(* rewritten to).                                                          *)
(***************************************************************************)
EXTENDS Integers, Sequences, FiniteSets, TLC

VARIABLES
    all_columns,        \* Column Matcher: the table's column names
    selected_columns,   \* Column Matcher: the rename specification (ordered dict)
    result_columns,     \* outcome of wildcard_expansion_dict
    names_result,       \* outcome of wildcard_expansion
    done,               \* the operations that have run on the current input
    fn_string,          \* Function Resolver: the segments of the dotted name
    stock_functions,    \* Function Resolver: the built-in root (None when unset)
    custom_functions,   \* Function Resolver: the custom root (None when unset)
    default_stock_functions,  \* Function Resolver: trailing default segment
    resolved,           \* outcome of get_nested_function
    params,             \* Parameter Binder: the step's parameters before the call
    fn_args,            \* Parameter Binder: the declared parameter names of fn
    functions,          \* Parameter Binder: the custom function table
    variables,          \* Parameter Binder: the current variable mapping
    error,              \* Parameter Binder: the exception in flight ("" for None)
    common_params,      \* Parameter Binder: the common parameters
    bound,              \* outcome of add_special_parameters
    table0,             \* Step: the table before the step
    step,               \* Step: the wrangle and its parameters
    df,                 \* Step: the table after the step
    calls,              \* Step: the transform invocations the step made, in order
    outcome             \* Step: how the step ended

matcherVars == <<all_columns, selected_columns, result_columns, names_result, done>>

resolverVars == <<fn_string, stock_functions, custom_functions,
                  default_stock_functions, resolved>>

binderVars == <<params, fn_args, functions, variables, error, common_params, bound>>

stepVars == <<table0, step, df, calls, outcome>>

vars == <<matcherVars, resolverVars, binderVars, stepVars>>

----------------------------------------------------------------------------
(* Bounds *)

MaxCols == 2        \* columns of the table handed to the Column Matcher
MaxPatLen == 3      \* characters of a wildcard key or rename value
MaxEntries == 2     \* entries of a multi-entry rename specification
MaxPath == 3        \* segments of a dotted function name
MaxRows == 2        \* rows of a table
MaxIn == 2          \* columns of an input list
MaxOut == 3         \* columns of an output list

----------------------------------------------------------------------------
(* Generic helpers on sequences and ordered dictionaries *)

Range(s) == {s[i] : i \in 1..Len(s)}

Drop(s, n) == SubSeq(s, n + 1, Len(s))

Take(s, n) == SubSeq(s, 1, n)

Max(S) == CHOOSE m \in S : \A n \in S : n <= m

Min(S) == CHOOSE m \in S : \A n \in S : m <= n

\* All sequences over S with length in lo..hi
SeqsOf(S, lo, hi) == UNION {[1..n -> S] : n \in lo..hi}

NoDup(s) == \A i, j \in 1..Len(s) : s[i] = s[j] => i = j

\* An ordered dict is a sequence of <<key, value>> pairs with distinct keys
DictKeys(d) == [i \in 1..Len(d) |-> d[i][1]]

DictValues(d) == [i \in 1..Len(d) |-> d[i][2]]

DictHas(d, k) == \E i \in 1..Len(d) : d[i][1] = k

\* The value of the first entry is returned whatever the key
DictGet_First(d, k) == d[1][2]

DictGet(d, k) == d[CHOOSE i \in 1..Len(d) : d[i][1] = k][2]

\* A new key is put before the others
DictSet_Front(d, k, v) ==
    IF DictHas(d, k)
    THEN [i \in 1..Len(d) |-> IF d[i][1] = k THEN <<k, v>> ELSE d[i]]
    ELSE <<<<k, v>>>> \o d

\* d[k] = v : an existing key keeps its position, a new key is appended
DictSet(d, k, v) ==
    IF DictHas(d, k)
    THEN [i \in 1..Len(d) |-> IF d[i][1] = k THEN <<k, v>> ELSE d[i]]
    ELSE Append(d, <<k, v>>)

\* The entries of a keep their values; b only adds its new keys
DictMerge_FirstWins(a, b) ==
    a \o SelectSeq(b, LAMBDA e : ~DictHas(a, e[1]))

\* {**a, **b} : the entries of a in order (values overridden by b), then b's new keys
RECURSIVE DictMerge(_, _)
DictMerge(a, b) ==
    IF b = <<>> THEN a
    ELSE DictMerge(DictSet(a, b[1][1], b[1][2]), Tail(b))

----------------------------------------------------------------------------
(* Regular expressions as used by the Column Matcher (module re) *)

REGEX == "regex:"
REGEX_UPPER == "Regex:"
LPAREN == "("
GROUP == "(.*)"
STAR == "*"
DOT == "."
QMARK == "?"
BACKSLASH == "\\"

\* fr'\g<{n}>'
GroupRef(n) == "\\g<" \o ToString(n) \o ">"

GroupRefs == {GroupRef(n) : n \in 1..(MaxPatLen + 1)}

GroupNo(tok) == CHOOSE n \in 1..(MaxPatLen + 1) : GroupRef(n) = tok

\* One pattern token against one character
TokMatches(tok, ch) == tok = DOT \/ tok = ch

NoMatch == [ok |-> FALSE, len |-> 0, groups |-> <<>>]

\* Pattern.fullmatch: the whole of s, greedy groups, first alternative in
\* backtracking order
RECURSIVE FullMatch(_, _)
FullMatch(p, s) ==
    IF p = <<>> THEN
        IF s = <<>> THEN [ok |-> TRUE, len |-> 0, groups |-> <<>>] ELSE NoMatch
    ELSE IF Head(p) = GROUP THEN
        LET fits == {n \in 0..Len(s) : FullMatch(Tail(p), Drop(s, n)).ok}
        IN  IF fits = {} THEN NoMatch
            ELSE LET n == Max(fits)
                     r == FullMatch(Tail(p), Drop(s, n))
                 IN  [ok |-> TRUE, len |-> n + r.len,
                      groups |-> <<Take(s, n)>> \o r.groups]
    ELSE IF s # <<>> /\ TokMatches(Head(p), Head(s)) THEN
        LET r == FullMatch(Tail(p), Tail(s))
        IN  IF r.ok THEN [ok |-> TRUE, len |-> 1 + r.len, groups |-> r.groups]
            ELSE NoMatch
    ELSE NoMatch

\* A match anchored at the start of s only (one attempt of Pattern.search)
RECURSIVE PrefixMatch(_, _)
PrefixMatch(p, s) ==
    IF p = <<>> THEN [ok |-> TRUE, len |-> 0, groups |-> <<>>]
    ELSE IF Head(p) = GROUP THEN
        LET fits == {n \in 0..Len(s) : PrefixMatch(Tail(p), Drop(s, n)).ok}
        IN  IF fits = {} THEN NoMatch
            ELSE LET n == Max(fits)
                     r == PrefixMatch(Tail(p), Drop(s, n))
                 IN  [ok |-> TRUE, len |-> n + r.len,
                      groups |-> <<Take(s, n)>> \o r.groups]
    ELSE IF s # <<>> /\ TokMatches(Head(p), Head(s)) THEN
        LET r == PrefixMatch(Tail(p), Tail(s))
        IN  IF r.ok THEN [ok |-> TRUE, len |-> 1 + r.len, groups |-> r.groups]
            ELSE NoMatch
    ELSE NoMatch

\* Number of capture groups of a pattern
RECURSIVE GroupCount(_)
GroupCount(p) ==
    IF p = <<>> THEN 0
    ELSE (IF Head(p) = GROUP THEN 1 ELSE 0) + GroupCount(Tail(p))

\* A replacement template is valid iff every group reference names a group
\* of the pattern (otherwise re.error: invalid group reference)
TemplateOk(p, repl) ==
    \A i \in 1..Len(repl) :
        repl[i] \in GroupRefs => GroupNo(repl[i]) <= GroupCount(p)

\* Expansion of a replacement template with the groups of a match
RECURSIVE ExpandTemplate(_, _)
ExpandTemplate(repl, groups) ==
    IF repl = <<>> THEN <<>>
    ELSE (IF Head(repl) \in GroupRefs
          THEN groups[GroupNo(Head(repl))]
          ELSE <<Head(repl)>>) \o ExpandTemplate(Tail(repl), groups)

\* re.sub(p, repl, s, count=1): the leftmost match is replaced, once
ReSub(p, repl, s) ==
    LET starts == {i \in 0..Len(s) : PrefixMatch(p, Drop(s, i)).ok}
    IN  IF starts = {} THEN s
        ELSE LET i == Min(starts)
                 m == PrefixMatch(p, Drop(s, i))
             IN  Take(s, i) \o ExpandTemplate(repl, m.groups) \o Drop(s, i + m.len)

\* re.sub("(" + p + ")", r"\1", s, count=1): the leftmost match is replaced
\* by group 1, which is the matched text
ReSubKeep(p, s) ==
    LET starts == {i \in 0..Len(s) : PrefixMatch(p, Drop(s, i)).ok}
    IN  IF starts = {} THEN s
        ELSE LET i == Min(starts)
                 m == PrefixMatch(p, Drop(s, i))
             IN  Take(s, i) \o SubSeq(s, i + 1, i + m.len) \o Drop(s, i + m.len)

----------------------------------------------------------------------------
(* utils.py: wildcard_expansion_dict *)

\* str(k).lower().startswith('regex:')
StartsWithRegex(k) == k # <<>> /\ Head(k) \in {REGEX, REGEX_UPPER}

\* re.search(r'[^\\]?\*', k): the optional character class lets any * match
ContainsStar(k) == \E i \in 1..Len(k) : k[i] = STAR

\* (?<!\\)\* : a * that is not preceded by a backslash
UnescapedStar(k, i) == k[i] = STAR /\ (i = 1 \/ k[i - 1] # BACKSLASH)

\* re.sub(r'(?<!\\)\*', r'(.*)', k)
WildcardToPattern(k) ==
    [i \in 1..Len(k) |-> IF UnescapedStar(k, i) THEN GROUP ELSE k[i]]

\* The group counter is never incremented: every * becomes \g<1>
WildcardToTemplate_SameGroup(v) ==
    [i \in 1..Len(v) |-> IF UnescapedStar(v, i) THEN GroupRef(1) ELSE v[i]]

\* re.sub(r'(?<!\\)\*', replacer, v): the n-th unescaped * becomes \g<n>
WildcardToTemplate(v) ==
    [i \in 1..Len(v) |->
        IF UnescapedStar(v, i)
        THEN GroupRef(Cardinality({j \in 1..i : UnescapedStar(v, j)}))
        ELSE v[i]]

\* Lines 18-41: the specification with wildcards converted to regex entries
RECURSIVE ConvertWildcards(_, _)
ConvertWildcards(sel, tmp_columns) ==
    IF sel = <<>> THEN tmp_columns
    ELSE LET k == sel[1][1]
             v == sel[1][2]
         IN  IF ContainsStar(k) /\ ~StartsWithRegex(k)
             THEN ConvertWildcards(Tail(sel),
                      DictSet(tmp_columns, <<REGEX>> \o WildcardToPattern(k),
                              WildcardToTemplate(v)))
             ELSE ConvertWildcards(Tail(sel), DictSet(tmp_columns, k, v))

\* filter(re.compile(pattern).fullmatch, all_columns), duplicates dropped
MatchingColumns(pat, cols) ==
    SelectSeq(cols, LAMBDA c : FullMatch(pat, c).ok)

Ok(value) == [status |-> "ok", value |-> value, msg |-> <<>>]

\* raise KeyError(f'Column {column} does not exist')
MissingColumn(column) == [status |-> "MissingColumn", value |-> <<>>, msg |-> column]

\* The KeyError of a failed dict lookup selected_columns[column]
LookupError(key) == [status |-> "LookupError", value |-> <<>>, msg |-> key]

\* re.compile(pattern): among the modelled texts only a lone opening
\* parenthesis (a group that is never closed) fails to compile
Compiles(pat) == \A i \in 1..Len(pat) : pat[i] # LPAREN

\* The re.error that re.compile raises, passed on to the caller as it is
ReError(pat) == [status |-> "re.error", value |-> <<>>, msg |-> pat]

\* column[-1] of an empty name
IndexError == [status |-> "IndexError", value |-> <<>>, msg |-> <<>>]

\* raise ValueError(f"Invalid regex pattern: {selected_columns[column]}. ...")
ValueError(pattern) == [status |-> "ValueError", value |-> <<>>, msg |-> pattern]

\* The "?" marker is not recognised
IsOptional_Never(column, cols) == FALSE

\* The "?" test is dropped: every absent column counts as optional
IsOptional_AnyAbsent(column, cols) == column \notin Range(cols)

\* if column[-1] == "?" and column not in all_columns
IsOptional(column, cols) ==
    column[Len(column)] = QMARK /\ column \notin Range(cols)

\* Lines 47-87: one iteration per key of the converted specification
RECURSIVE ExpandLoop(_, _, _, _)
ExpandLoop(cols, sel, i, result) ==
    IF i > Len(sel) THEN Ok(result)
    ELSE
      LET column == sel[i][1]
          target == sel[i][2]
      IN  IF StartsWithRegex(column) THEN
            LET pat == Tail(column)
                matching == MatchingColumns(pat, cols)
            IN  IF ~Compiles(pat) THEN ReError(pat)
                ELSE IF column # target /\ matching # <<>> /\ ~TemplateOk(pat, target)
                THEN ValueError(target)
                ELSE
                  LET renamed ==
                        [j \in 1..Len(matching) |->
                            IF column = target
                            THEN ReSubKeep(pat, matching[j])
                            ELSE ReSub(pat, target, matching[j])]
                      fresh == [j \in 1..Len(matching) |-> <<matching[j], renamed[j]>>]
                  IN  ExpandLoop(cols, sel, i + 1, DictMerge(fresh, result))
          ELSE IF column = <<>> THEN IndexError
          ELSE
            LET optional_column == IsOptional(column, cols)
                name == IF optional_column THEN Take(column, Len(column) - 1) ELSE column
            IN  IF name \in Range(cols)
                THEN \* result_columns[column] = selected_columns[column],
                     \* looked up under the name without its "?"
                     IF DictHas(sel, name)
                     THEN ExpandLoop(cols, sel, i + 1,
                                     DictSet(result, name, DictGet(sel, name)))
                     ELSE LookupError(name)
                ELSE IF ~optional_column THEN MissingColumn(name)
                ELSE ExpandLoop(cols, sel, i + 1, result)

wildcard_expansion_dict(cols, sel) ==
    ExpandLoop(cols, ConvertWildcards(sel, <<>>), 1, <<>>)

----------------------------------------------------------------------------
(* utils.py: wildcard_expansion *)

\* Lines 188-191: wildcards of the selection converted in place
ConvertSelection(selected) ==
    [i \in 1..Len(selected) |->
        IF ContainsStar(selected[i]) /\ ~StartsWithRegex(selected[i])
        THEN <<REGEX>> \o WildcardToPattern(selected[i])
        ELSE selected[i]]

\* Lines 198-215: result_columns is a dict used as an ordered set
RECURSIVE NamesLoop(_, _, _, _)
NamesLoop(cols, selected, i, result) ==
    IF i > Len(selected) THEN Ok(DictKeys(result))
    ELSE
      LET column == selected[i]
      IN  IF StartsWithRegex(column) THEN
            LET matching == MatchingColumns(Tail(column), cols)
                fresh == [j \in 1..Len(matching) |-> <<matching[j], <<>> >>]
            IN  IF ~Compiles(Tail(column)) THEN ReError(Tail(column))
                ELSE NamesLoop(cols, selected, i + 1, DictMerge(result, fresh))
          ELSE IF column = <<>> THEN IndexError
          ELSE
            LET optional_column == IsOptional(column, cols)
                name == IF optional_column THEN Take(column, Len(column) - 1) ELSE column
            IN  IF name \in Range(cols)
                THEN NamesLoop(cols, selected, i + 1, DictSet(result, name, <<>>))
                ELSE IF ~optional_column THEN MissingColumn(name)
                ELSE NamesLoop(cols, selected, i + 1, result)

wildcard_expansion(cols, selected) ==
    NamesLoop(cols, ConvertSelection(selected), 1, <<>>)

----------------------------------------------------------------------------
(* utils.py: get_nested_function *)

\* A namespace node: a dict, an object with attributes (module, class) or a
\* callable.  origin is the root it lives under followed by its path, which
\* identifies the callable; kids is the set of <<name, node>> members.
None == [kind |-> "None", origin |-> <<>>, kids |-> {}]

Callable(origin) == [kind |-> "fn", origin |-> origin, kids |-> {}]

Namespace(kind, origin, names) ==
    [kind |-> kind, origin |-> origin,
     kids |-> {<<n, Callable(Append(origin, n))>> : n \in names}]

Member(obj, name) == (CHOOSE e \in obj.kids : e[1] = name)[2]

\* Only dict nodes answer the lookup: attribute lookup is forgotten
NodeHas_DictOnly(obj, fn_name) ==
    obj.kind = "dict" /\ \E e \in obj.kids : e[1] = fn_name

\* Lines 122-129: `fn_name in obj` for a dict, hasattr(obj, fn_name) otherwise
NodeHas(obj, fn_name) ==
    IF obj.kind = "dict"
    THEN \E e \in obj.kids : e[1] = fn_name
    ELSE obj.kind = "obj" /\ \E e \in obj.kids : e[1] = fn_name

Resolved(obj) == [status |-> "ok", node |-> obj, msg |-> ""]

ResolveError(msg) == [status |-> "ValueError", node |-> None, msg |-> msg]

\* Lines 121-131: one lookup per path segment
RECURSIVE Walk(_, _)
Walk(obj, fn_list) ==
    IF fn_list = <<>> THEN Resolved(obj)
    ELSE IF ~NodeHas(obj, Head(fn_list))
         THEN ResolveError("Function not recognized")
         ELSE Walk(Member(obj, Head(fn_list)), Tail(fn_list))

\* The default segment is never appended
get_nested_function_NoDefault(segments, stock, custom, default_stock) ==
    IF custom = None /\ stock = None
    THEN ResolveError("No functions provided")
    ELSE IF Head(segments) = "custom"
    THEN IF Len(segments) = 1
         THEN ResolveError("Custom function not defined correctly")
         ELSE Walk(custom, Tail(segments))
    ELSE Walk(stock, segments)

\* The dotted name is held as the list fn_string.strip().split('.') of its
\* segments; default_stock is "" when default_stock_functions is unset
get_nested_function(segments, stock, custom, default_stock) ==
    IF custom = None /\ stock = None
    THEN ResolveError("No functions provided")
    ELSE IF Head(segments) = "custom"
    THEN IF Len(segments) = 1
         THEN ResolveError("Custom function not defined correctly")
         ELSE Walk(custom, Tail(segments))
    ELSE Walk(stock,
              IF default_stock # "" THEN Append(segments, default_stock)
              ELSE segments)

----------------------------------------------------------------------------
(* utils.py: add_special_parameters *)

\* The test that fn declares the parameter is dropped
Inject_Undeclared(p, argspec, key, value) ==
    IF ~DictHas(p, key) THEN DictSet(p, key, value) ELSE p

\* Lines 155-158: if (key not in params and key in argspec): params[key] = value
Inject(p, argspec, key, value) ==
    IF ~DictHas(p, key) /\ key \in argspec THEN DictSet(p, key, value) ELSE p

\* Lines 160-161: an error is injected only when one is in flight (truthy)
InjectError(p, argspec, err) ==
    IF err # "" THEN Inject(p, argspec, "error", err) ELSE p

\* The test that fn declares the key of common is dropped
MergeCommon_All(p, argspec, common) ==
    IF common # <<>> THEN DictMerge(p, common) ELSE p

\* Lines 165-173: {**params, **{k: v for k, v in common.items() if k in argspec}}
MergeCommon(p, argspec, common) ==
    IF common # <<>>
    THEN DictMerge(p, SelectSeq(common, LAMBDA e : e[1] \in argspec))
    ELSE p

\* fn is held as the set of its declared parameter names
add_special_parameters(p, argspec, fns, vs, err, common) ==
    MergeCommon(
        InjectError(
            Inject(Inject(p, argspec, "functions", fns), argspec, "variables", vs),
            argspec, err),
        argspec, common)

----------------------------------------------------------------------------
(* Tables (pandas.DataFrame) and cells *)

\* A cell is a tagged value; a table is an ordered dict from column name to
\* the sequence of the column's cells, all columns of the same length.
Str(v) == [t |-> "str", v |-> v]

Num(n) == [t |-> "int", v |-> ToString(n)]

\* str(x) of one cell: astype(str) leaves text alone and prints the rest
AsStr(cell) ==
    IF cell.t = "str" THEN cell
    ELSE IF cell.t = "list" THEN Str("[" \o cell.v \o "]")
    ELSE Str(cell.v)

\* Series.astype(str).tolist()
AsStrList(column) == [i \in 1..Len(column) |-> AsStr(column[i])]

NRows(t) == IF t = <<>> THEN 0 ELSE Len(t[1][2])

HasColumn(t, name) == DictHas(t, name)

\* sep.join(texts)
RECURSIVE Join(_, _)
Join(sep, texts) ==
    IF texts = <<>> THEN ""
    ELSE IF Len(texts) = 1 THEN texts[1].v
    ELSE texts[1].v \o sep \o Join(sep, Tail(texts))

\* df[input].astype(str).aggregate(sep.join, axis=1).tolist()
JoinRows(t, inp, sep) ==
    [i \in 1..NRows(t) |->
        Str(Join(sep, [k \in 1..Len(inp) |-> AsStr(DictGet(t, inp[k])[i])]))]

----------------------------------------------------------------------------
(* The transforms of wrangles.extract and wrangles.format: external        *)
(* collaborators that map a sequence of texts to a sequence of results of  *)
(* the same length, one result per text.                                   *)

ListTyped == {"address", "codes", "properties", "regex", "html", "custom", "tokenize"}

ResultType(fn) == IF fn \in ListTyped THEN "list" ELSE "str"

\* The result of transform fn for one text
Result(fn, text) == [t |-> ResultType(fn), v |-> fn \o "(" \o text.v \o ")"]

Transform(fn, texts) == [i \in 1..Len(texts) |-> Result(fn, texts[i])]

\* One invocation of a transform, as recorded in the call log
Call(fn, texts) == [fn |-> fn, args |-> texts]

----------------------------------------------------------------------------
(* recipe_wrangles/extract.py: the shape shared by the fan-out wrappers *)

\* A column specification as given in the recipe: unset, one name, or a list
Unset == [kind |-> "none", items |-> <<>>]

Scalar(name) == [kind |-> "scalar", items |-> <<name>>]

List(names) == [kind |-> "list", items |-> names]

\* if not isinstance(x, list): x = [x]
AsList(x) == x.items

\* if output is None: output = input
OutputOrInput(inp, out) == IF out.kind = "none" THEN inp ELSE out

StepOk(t, log) == [status |-> "ok", df |-> t, calls |-> log, msg |-> ""]

StepFail(status, t, log, msg) == [status |-> status, df |-> t, calls |-> log, msg |-> msg]

CardinalityMsg == "Extract must output to a single column or equal amount of columns as input."

\* The check is dropped
CardinalityError_Never(inp, out) == FALSE

\* if len(input) != len(output) and len(output) > 1
CardinalityError(inp, out) == Len(inp) # Len(out) /\ Len(out) > 1

\* if len(output) == 1 and len(input) > 1
AggregateCase(inp, out) == Len(out) = 1 /\ Len(inp) > 1

\* df[output[0]] = fn(df[input].astype(str).aggregate(sep.join, axis=1).tolist())
Aggregate(t, log, inp, out, fn, sep) ==
    IF \E k \in 1..Len(inp) : ~HasColumn(t, inp[k])
    THEN StepFail("KeyError", t, log, "column not in index")
    ELSE LET texts == JoinRows(t, inp, sep)
         IN  StepOk(DictSet(t, out[1], Transform(fn, texts)),
                    Append(log, Call(fn, texts)))

\* for input_column, output_column in zip(input, output):
\*     df[output_column] = fn(df[input_column].astype(str).tolist())
RECURSIVE Zipped(_, _, _, _, _)
Zipped(t, log, inp, out, fn) ==
    IF inp = <<>> \/ out = <<>> THEN StepOk(t, log)
    ELSE IF ~HasColumn(t, Head(inp))
    THEN StepFail("KeyError", t, log, "column not in index")
    ELSE LET texts == AsStrList(DictGet(t, Head(inp)))
         IN  Zipped(DictSet(t, Head(out), Transform(fn, texts)),
                    Append(log, Call(fn, texts)), Tail(inp), Tail(out), fn)

\* The body shared by address, attributes, codes and properties
FanOut(t, input, output, fn, sep) ==
    LET inp == AsList(input)
        out == AsList(OutputOrInput(input, output))
    IN  IF CardinalityError(inp, out)
        THEN StepFail("ValueError", t, <<>>, CardinalityMsg)
        ELSE IF AggregateCase(inp, out)
        THEN Aggregate(t, <<>>, inp, out, fn, sep)
        ELSE Zipped(t, <<>>, inp, out, fn)

address(t, input, output) == FanOut(t, input, output, "address", " ")

attributes(t, input, output) == FanOut(t, input, output, "attributes", " AAA ")

codes(t, input, output) == FanOut(t, input, output, "codes", " AAA ")

properties(t, input, output) == FanOut(t, input, output, "properties", " ")

BracketTypes == {"round", "square", "curly", "angled", "all"}

\* find is held as the list it is coerced to
brackets(t, input, output, find) ==
    LET inp == AsList(input)
        out == AsList(OutputOrInput(input, output))
    IN  IF CardinalityError(inp, out)
        THEN StepFail("ValueError", t, <<>>, CardinalityMsg)
        ELSE IF ~(Range(find) \subseteq BracketTypes)
        THEN StepFail("ValueError", t, <<>>,
                      "find must only contain the elements: round, square, curly, angled")
        ELSE IF AggregateCase(inp, out)
        THEN Aggregate(t, <<>>, inp, out, "brackets", " ")
        ELSE Zipped(t, <<>>, inp, out, "brackets")

\* html has no aggregate branch
html(t, input, output) ==
    LET inp == AsList(input)
        out == AsList(OutputOrInput(input, output))
    IN  IF CardinalityError(inp, out)
        THEN StepFail("ValueError", t, <<>>, CardinalityMsg)
        ELSE Zipped(t, <<>>, inp, out, "html")

\* The transform of extract.custom with one model
CustomFn(model) == "custom:" \o model

\* wrangles.format.concatenate(rows, ' '): each row's texts joined with the separator
concatenate(t, inp, sep) == JoinRows(t, inp, sep)

\* for in_col, out_col, model in zip(input, output, model_id)
RECURSIVE ZippedModels(_, _, _, _, _)
ZippedModels(t, log, inp, out, models) ==
    IF inp = <<>> \/ out = <<>> \/ models = <<>> THEN StepOk(t, log)
    ELSE IF ~HasColumn(t, Head(inp))
    THEN StepFail("KeyError", t, log, "column not in index")
    ELSE LET texts == AsStrList(DictGet(t, Head(inp)))
             fn == CustomFn(Head(models))
         IN  ZippedModels(DictSet(t, Head(out), Transform(fn, texts)),
                          Append(log, Call(fn, texts)),
                          Tail(inp), Tail(out), Tail(models))

custom(t, input, output, model_id) ==
    LET inp == AsList(input)
        out == AsList(OutputOrInput(input, output))
        models == AsList(model_id)
    IN  IF Len(inp) = Len(out) /\ Len(models) = 1
        THEN ZippedModels(t, <<>>, inp, out, [k \in 1..Len(inp) |-> models[1]])
        ELSE IF Len(inp) > 1 /\ Len(out) = 1 /\ Len(models) = 1
        THEN IF \E k \in 1..Len(inp) : ~HasColumn(t, inp[k])
             THEN StepFail("KeyError", t, <<>>, "column not in index")
             ELSE LET texts == concatenate(t, inp, " ")
                      fn == CustomFn(models[1])
                  IN  StepOk(DictSet(t, out[1], Transform(fn, texts)),
                             <<Call(fn, texts)>>)
        ELSE ZippedModels(t, <<>>, inp, out, models)

DateProperties == {"day", "day_of_year", "month", "month_name", "weekday",
                   "week_day_name", "week_year", "quarter"}

\* f"\"{property}\" not a valid date property."
DatePropertyMsg(property) == "\"" \o property \o "\" not a valid date property."

\* properties_object[property] for one cell of pd.to_datetime(column)
DateProperty(property, cell) == [t |-> "date", v |-> property \o "(" \o cell.v \o ")"]

\* A list cell holding the given cells
ListOf(cells) == [t |-> "list", v |-> Join(", ", cells)]

\* The loop of the branch for several inputs and one output: temp holds one
\* list per row already started, and every append reads row 0 of the column.
RECURSIVE DateAggregate(_, _, _, _, _)
DateAggregate(t, inp, out, property, temp) ==
    IF inp = <<>> THEN StepOk(DictSet(t, out, [j \in 1..Len(temp) |-> ListOf(temp[j])]), <<>>)
    ELSE IF ~HasColumn(t, Head(inp))
    THEN StepFail("KeyError", t, <<>>, "column not in index")
    ELSE IF property \notin DateProperties
    THEN StepFail("ValueError", t, <<>>, DatePropertyMsg(property))
    ELSE IF NRows(t) = 0
    THEN StepFail("KeyError", t, <<>>, "0")
    ELSE LET first == DateProperty(property, DictGet(t, Head(inp))[1])
         IN  IF temp = <<>>
             THEN DateAggregate(t, Tail(inp), out, property, <<<<first>>>>)
             ELSE IF NRows(t) > Len(temp)
             THEN StepFail("IndexError", t, <<>>, "list index out of range")
             ELSE DateAggregate(t, Tail(inp), out, property,
                                [j \in 1..Len(temp) |-> Append(temp[j], first)])

RECURSIVE DateZipped(_, _, _, _)
DateZipped(t, inp, out, property) ==
    IF inp = <<>> \/ out = <<>> THEN StepOk(t, <<>>)
    ELSE IF ~HasColumn(t, Head(inp))
    THEN StepFail("KeyError", t, <<>>, "column not in index")
    ELSE IF property \notin DateProperties
    THEN StepFail("ValueError", t, <<>>, DatePropertyMsg(property))
    ELSE LET column == DictGet(t, Head(inp))
         IN  DateZipped(DictSet(t, Head(out),
                                [i \in 1..Len(column) |-> DateProperty(property, column[i])]),
                        Tail(inp), Tail(out), property)

date_properties(t, input, output, property) ==
    LET inp == AsList(input)
        out == AsList(OutputOrInput(input, output))
    IN  IF CardinalityError(inp, out)
        THEN StepFail("ValueError", t, <<>>, CardinalityMsg)
        ELSE IF AggregateCase(inp, out)
        THEN DateAggregate(t, inp, out[1], property, <<>>)
        ELSE DateZipped(t, inp, out, property)

\* df[output_column] = df[input_column].apply(lambda x: re.findall(find, x)):
\* the cells are not converted to text, and re.findall rejects a cell that is
\* not text
RECURSIVE ZippedRegex(_, _, _, _)
ZippedRegex(t, log, inp, out) ==
    IF inp = <<>> \/ out = <<>> THEN StepOk(t, log)
    ELSE IF ~HasColumn(t, Head(inp))
    THEN StepFail("KeyError", t, log, "column not in index")
    ELSE LET column == DictGet(t, Head(inp))
         IN  IF \E i \in 1..Len(column) : column[i].t # "str"
             THEN StepFail("TypeError", t, log, "expected string or bytes-like object")
             ELSE ZippedRegex(DictSet(t, Head(out), Transform("regex", column)),
                              Append(log, Call("regex", column)), Tail(inp), Tail(out))

regex(t, input, output) ==
    LET inp == AsList(input)
        out == AsList(OutputOrInput(input, output))
    IN  IF CardinalityError(inp, out)
        THEN StepFail("ValueError", t, <<>>, CardinalityMsg)
        ELSE ZippedRegex(t, <<>>, inp, out)

----------------------------------------------------------------------------
(* recipe_wrangles/extract.py: date_range *)

\* The keys of range_object
Frequencies ==
    {"business days", "days", "weeks", "months", "semi months", "business month ends",
     "month starts", "semi month starts", "business month starts", "quarters",
     "quarter starts", "years", "business hours", "hours", "minutes", "seconds",
     "milliseconds"}

\* f"\"{range}\" not a valid frequency"
FrequencyMsg(range) == "\"" \o range \o "\" not a valid frequency"

\* pd.to_datetime of a column: every cell becomes a Timestamp
ToDatetime(column) == [i \in 1..Len(column) |-> [t |-> "date", v |-> column[i].v]]

\* len(pd.date_range(start, end, freq)[1:]) for each row
RangeCounts(starts, ends, range) ==
    [i \in 1..Len(starts) |->
        [t |-> "int", v |-> range \o "(" \o starts[i].v \o "," \o ends[i].v \o ")"]]

\* The two date columns are converted in place before the output is written
date_range(t, start_time, end_time, output, range) ==
    IF range \notin Frequencies
    THEN StepFail("ValueError", t, <<>>, FrequencyMsg(range))
    ELSE IF ~HasColumn(t, start_time) THEN StepFail("KeyError", t, <<>>, start_time)
    ELSE LET t1 == DictSet(t, start_time, ToDatetime(DictGet(t, start_time)))
         IN  IF ~HasColumn(t1, end_time) THEN StepFail("KeyError", t1, <<>>, end_time)
             ELSE LET t2 == DictSet(t1, end_time, ToDatetime(DictGet(t1, end_time)))
                  IN  StepOk(DictSet(t2, output,
                                     RangeCounts(DictGet(t2, start_time),
                                                 DictGet(t2, end_time), range)), <<>>)

----------------------------------------------------------------------------
(* recipe_wrangles/split.py: dictionary *)

\* The dictionaries of the model, by their JSON text; the keys are in the
\* order of the text and the values are cells
DictTexts == {"{}", "{k:0}", "{m:9}", "{k:1,l:2}", "{k:3}", "{l:4}", "{m:5}"}

\* json.loads(text).items(), and val.items() of a dictionary
DictOf(text) ==
    CASE text = "{}" -> <<>>
      [] text = "{k:0}" -> << <<"k", Str("0")>> >>
      [] text = "{m:9}" -> << <<"m", Str("9")>> >>
      [] text = "{k:1,l:2}" -> << <<"k", Str("1")>>, <<"l", Str("2")>> >>
      [] text = "{k:3}" -> << <<"k", Str("3")>> >>
      [] text = "{l:4}" -> << <<"l", Str("4")>> >>
      [] text = "{m:5}" -> << <<"m", Str("5")>> >>

\* A cell holding a dictionary
DictCell(text) == [t |-> "dict", v |-> text]

\* _parse_dict_or_json accepts a dictionary and a text that is a JSON object
Parses(cell) == cell.t \in {"dict", "str"} /\ cell.v \in DictTexts

\* The value of a key that a row does not have
NaN == [t |-> "nan", v |-> "nan"]

\* A value already present is kept: the first dictionary with the key wins
MergeRow_FirstWins(dicts) ==
    LET RECURSIVE Fold(_, _)
        Fold(ds, acc) ==
            IF ds = <<>> THEN acc
            ELSE Fold(Tail(ds), acc \o SelectSeq(Head(ds), LAMBDA e : ~DictHas(acc, e[1])))
    IN  Fold(dicts, <<>>)

\* dict(itertools.chain.from_iterable(items of each dictionary)): a key keeps
\* the place of its first occurrence and takes the value of its last
MergeRow(dicts) ==
    LET RECURSIVE Fold(_, _)
        Fold(ds, acc) ==
            IF ds = <<>> THEN acc ELSE Fold(Tail(ds), DictMerge(acc, Head(ds)))
    IN  Fold(dicts, <<>>)

\* The row dictionaries of pd.DataFrame([...]): default first, then the
\* cells of the input columns in input-list order
RowDicts(t, inp, default) ==
    [i \in 1..NRows(t) |->
        MergeRow(<<DictOf(default)>> \o [k \in 1..Len(inp) |-> DictOf(DictGet(t, inp[k])[i].v)])]

\* The columns of a DataFrame built from a list of dictionaries: the keys in
\* the order of their first appearance
RECURSIVE KeysInOrder(_, _)
KeysInOrder(rows, acc) ==
    IF rows = <<>> THEN acc
    ELSE KeysInOrder(Tail(rows),
            acc \o SelectSeq(DictKeys(Head(rows)), LAMBDA k : k \notin Range(acc)))

\* df_temp: one column per key, NaN where a row has no such key
TempTable(rows) ==
    LET keys == KeysInOrder(rows, <<>>)
    IN  [c \in 1..Len(keys) |->
            <<keys[c], [i \in 1..Len(rows) |->
                          IF DictHas(rows[i], keys[c]) THEN DictGet(rows[i], keys[c])
                          ELSE NaN]>>]

\* A column name as a text of the Column Matcher, and back
RECURSIVE TextOf(_)
TextOf(name) == <<name>>

RECURSIVE NameOf(_)
NameOf(text) == IF text = <<>> THEN "" ELSE Head(text) \o NameOf(Tail(text))

\* The exception class of a failed expansion
ExceptionOf(status) ==
    IF status \in {"MissingColumn", "LookupError"} THEN "KeyError" ELSE status

\* df[df_temp.columns] = df_temp.values
RECURSIVE AssignAll(_, _)
AssignAll(t, temp) ==
    IF temp = <<>> THEN t
    ELSE AssignAll(DictSet(t, temp[1][1], temp[1][2]), Tail(temp))

\* rename holds the output list as the dictionary it is converted to (a
\* plain name x as x: x), keys and values as texts
dictionary(t, input, output, rename, default) ==
    LET inp == AsList(input)
    IN  IF \E k \in 1..Len(inp) : ~HasColumn(t, inp[k])
        THEN StepFail("KeyError", t, <<>>, "column not in index")
        ELSE IF \E k \in 1..Len(inp), i \in 1..NRows(t) : ~Parses(DictGet(t, inp[k])[i])
        THEN StepFail("ValueError", t, <<>>, "is not a valid Dictionary")
        ELSE LET temp == TempTable(RowDicts(t, inp, default))
             IN  IF output.kind = "none" THEN StepOk(AssignAll(t, temp), <<>>)
                 ELSE LET expanded ==
                            wildcard_expansion_dict(
                                [c \in 1..Len(temp) |-> TextOf(temp[c][1])],
                                DictMerge(<<>>, rename))
                          named == [c \in 1..Len(expanded.value) |->
                                      <<NameOf(expanded.value[c][2]),
                                        DictGet(temp, NameOf(expanded.value[c][1]))>>]
                      IN  IF expanded.status # "ok"
                          THEN StepFail(ExceptionOf(expanded.status), t, <<>>, "")
                          ELSE StepOk(AssignAll(t, named), <<>>)

----------------------------------------------------------------------------
(* recipe_wrangles/split.py: tokenize *)

DefaultMethods == {<<"space">>, <<"boundary">>, <<"boundary_ignore_space">>}

\* str(method).startswith("custom."): the method is held as the list of its
\* dotted segments
IsCustomMethod(method) == Len(method) > 1 /\ Head(method) = "custom"

\* str(method).lower().startswith("regex:")
IsRegexMethod(method) == Len(method) = 1 /\ Head(method) \in {"regex:x", "Regex:x"}

\* for in_col, out_col in zip(input, output):
\*     df[out_col] = _format.tokenize(df[in_col].values.tolist(), ...)
\* The cells are passed as they are
RECURSIVE ZippedRaw(_, _, _, _, _)
ZippedRaw(t, log, inp, out, fn) ==
    IF inp = <<>> \/ out = <<>> THEN StepOk(t, log)
    ELSE IF ~HasColumn(t, Head(inp))
    THEN StepFail("KeyError", t, log, "column not in index")
    ELSE LET column == DictGet(t, Head(inp))
         IN  ZippedRaw(DictSet(t, Head(out), Transform(fn, column)),
                       Append(log, Call(fn, column)), Tail(inp), Tail(out), fn)

tokenize(t, input, output, method, fns) ==
    LET inp == AsList(input)
        out == AsList(OutputOrInput(input, output))
    IN  IF Len(inp) # Len(out)
        THEN StepFail("ValueError", t, <<>>,
                      "The list of inputs and outputs must be the same length for split.tokenize")
        ELSE IF IsCustomMethod(method)
        THEN LET func == get_nested_function(method, None, fns, "")
             IN  IF func.status # "ok" THEN StepFail(func.status, t, <<>>, func.msg)
                 ELSE ZippedRaw(t, <<>>, inp, out, "tokenize")
        ELSE IF ~IsRegexMethod(method) /\ method \notin DefaultMethods
        THEN StepFail("ValueError", t, <<>>, "Method must be one of")
        ELSE ZippedRaw(t, <<>>, inp, out, "tokenize")

----------------------------------------------------------------------------
(* recipe_wrangles/format.py *)

\* input is not coerced to a list: zip(input, output) takes the characters of
\* an input given as one name, and the names of an input given as a list
Chars(input) ==
    IF input.kind = "scalar"
    THEN [i \in 1..Len(input.items[1]) |-> SubSeq(input.items[1], i, i)]
    ELSE input.items

\* df[input_column].str.strip(): the accessor is refused on a column of
\* numbers, and gives NaN for a cell of an object column that is not text
RECURSIVE ZippedStrip(_, _, _)
ZippedStrip(t, inp, out) ==
    IF inp = <<>> \/ out = <<>> THEN StepOk(t, <<>>)
    ELSE IF ~HasColumn(t, Head(inp))
    THEN StepFail("KeyError", t, <<>>, "column not in index")
    ELSE LET column == DictGet(t, Head(inp))
         IN  IF column # <<>> /\ \A i \in 1..Len(column) : column[i].t = "int"
             THEN StepFail("AttributeError", t, <<>>,
                           "Can only use .str accessor with string values")
             ELSE ZippedStrip(
                      DictSet(t, Head(out),
                              [i \in 1..Len(column) |->
                                  IF column[i].t = "str" THEN Result("strip", column[i])
                                  ELSE NaN]),
                      Tail(inp), Tail(out))

trim(t, input, output) ==
    ZippedStrip(t, Chars(input), AsList(OutputOrInput(input, output)))

\* prefix and suffix: df[output or input] = value + df[input].astype(str)
Affix(t, input, output, fn) ==
    LET name == input.items[1]
        target == OutputOrInput(input, output).items[1]
    IN  IF ~HasColumn(t, name) THEN StepFail("KeyError", t, <<>>, name)
        ELSE StepOk(DictSet(t, target, Transform(fn, AsStrList(DictGet(t, name)))), <<>>)

prefix(t, input, output) == Affix(t, input, output, "prefix")

suffix(t, input, output) == Affix(t, input, output, "suffix")

\* df[output] = pd.to_datetime(df[input]).dt.strftime(format): the texts and
\* numbers of the model stand for dates, a dictionary is refused
date_format(t, input, output) ==
    LET name == input.items[1]
        target == OutputOrInput(input, output).items[1]
    IN  IF ~HasColumn(t, name) THEN StepFail("KeyError", t, <<>>, name)
        ELSE LET column == DictGet(t, name)
             IN  IF \E i \in 1..Len(column) : column[i].t = "dict"
                 THEN StepFail("TypeError", t, <<>>, "is not convertible to datetime")
                 ELSE StepOk(DictSet(t, target, Transform("strftime", column)), <<>>)

\* A row that is a list loses its duplicates, any other row is kept
remove_duplicates(t, input, output) ==
    LET name == input.items[1]
        target == OutputOrInput(input, output).items[1]
    IN  IF ~HasColumn(t, name) THEN StepFail("KeyError", t, <<>>, name)
        ELSE LET column == DictGet(t, name)
             IN  StepOk(DictSet(t, target,
                                [i \in 1..Len(column) |->
                                    IF column[i].t = "list"
                                    THEN [t |-> "list", v |-> "dedupe(" \o column[i].v \o ")"]
                                    ELSE column[i]]), <<>>)

----------------------------------------------------------------------------
(* recipe.py: the execution of one step, with its where clause *)

NoWhere == [on |-> FALSE, mask |-> <<>>]

Where(mask) == [on |-> TRUE, mask |-> mask]

\* The wrangle named by the step, called with the step's parameters
Dispatch(st, t) ==
    CASE st.wrangle = "extract.address" -> address(t, st.input, st.output)
      [] st.wrangle = "extract.attributes" -> attributes(t, st.input, st.output)
      [] st.wrangle = "extract.brackets" -> brackets(t, st.input, st.output, st.find)
      [] st.wrangle = "extract.codes" -> codes(t, st.input, st.output)
      [] st.wrangle = "extract.custom" -> custom(t, st.input, st.output, st.model_id)
      [] st.wrangle = "extract.date_properties" ->
            date_properties(t, st.input, st.output, st.property)
      [] st.wrangle = "extract.html" -> html(t, st.input, st.output)
      [] st.wrangle = "extract.properties" -> properties(t, st.input, st.output)
      [] st.wrangle = "extract.regex" -> regex(t, st.input, st.output)
      [] st.wrangle = "split.tokenize" ->
            tokenize(t, st.input, st.output, st.method, st.fns)
      [] st.wrangle = "format.trim" -> trim(t, st.input, st.output)
      [] st.wrangle = "format.prefix" -> prefix(t, st.input, st.output)
      [] st.wrangle = "format.suffix" -> suffix(t, st.input, st.output)
      [] st.wrangle = "format.date_format" -> date_format(t, st.input, st.output)
      [] st.wrangle = "format.remove_duplicates" ->
            remove_duplicates(t, st.input, st.output)

\* The rows the mask selects, in table order
SelectedRows(mask) == SelectSeq([i \in 1..Len(mask) |-> i], LAMBDA i : mask[i])

\* The reduced table: the selected rows of every column
FilterRows(t, mask) ==
    LET rows == SelectedRows(mask)
    IN  [c \in 1..Len(t) |-> <<t[c][1], [k \in 1..Len(rows) |-> t[c][2][rows[k]]]>>]

\* The position in the reduced table of row i of the original table
ReducedPosition(mask, i) == Cardinality({j \in 1..i : mask[j]})

\* A row the mask leaves out is left without a value
Placeholder_Missing == [t |-> "nan", v |-> "nan"]

\* The value of an output column in a row the mask leaves out
Placeholder == Str("")

\* The output columns of the reduced result spliced into the original table
RECURSIVE Merge(_, _, _, _)
Merge(t, reduced, outs, mask) ==
    IF outs = <<>> THEN t
    ELSE LET column == [i \in 1..NRows(t) |->
                          IF mask[i]
                          THEN DictGet(reduced, Head(outs))[ReducedPosition(mask, i)]
                          ELSE Placeholder]
         IN  Merge(DictSet(t, Head(outs), column), reduced, Tail(outs), mask)

\* The wrangle is run on the reduced table even when no row is selected
RunStep_AlwaysInvoke(st, t) ==
    IF ~st.where.on THEN Dispatch(st, t)
    ELSE LET outs == AsList(OutputOrInput(st.input, st.output))
             mask == st.where.mask
             r == Dispatch(st, FilterRows(t, mask))
         IN  IF r.status # "ok" THEN StepFail(r.status, t, r.calls, r.msg)
             ELSE IF \E k \in 1..Len(outs) : ~HasColumn(r.df, outs[k])
             THEN StepFail("KeyError", t, r.calls, "column not in index")
             ELSE StepOk(Merge(t, r.df, outs, mask), r.calls)

\* One step: without where the wrangle runs on the table; with where it runs
\* on the reduced table, and not at all when no row is selected
RunStep(st, t) ==
    IF ~st.where.on THEN Dispatch(st, t)
    ELSE LET outs == AsList(OutputOrInput(st.input, st.output))
             mask == st.where.mask
         IN  IF SelectedRows(mask) = <<>>
             THEN StepOk(Merge(t, <<>>, outs, mask), <<>>)
             ELSE LET r == Dispatch(st, FilterRows(t, mask))
                  IN  IF r.status # "ok" THEN StepFail(r.status, t, r.calls, r.msg)
                      ELSE IF \E k \in 1..Len(outs) : ~HasColumn(r.df, outs[k])
                      THEN StepFail("KeyError", t, r.calls, "column not in index")
                      ELSE StepOk(Merge(t, r.df, outs, mask), r.calls)

----------------------------------------------------------------------------
(* Inputs of the Function Resolver *)

\* The members a root may hold under one name: nothing, a callable, or a
\* namespace of one of the given kinds holding the given names
Members(origin, name, inner) ==
    {{}} \cup {{<<name, c>>} : c \in {Callable(Append(origin, name))} \cup
                  {Namespace(i[1], Append(origin, name), i[2]) : i \in inner}}

Roots(kinds, root, inner) ==
    {[kind |-> k, origin |-> <<root>>, kids |-> f \cup g] :
        k \in kinds,
        f \in Members(<<root>>, "f", inner),
        g \in Members(<<root>>, "g", inner)}

\* stock_functions is a module whose members are callables or sub-modules
StockRoots ==
    {None} \cup Roots({"obj"}, "stock", {<<"obj", {}>>, <<"obj", {"f"}>>})

\* custom_functions is a dict or a class; its members may be dicts or classes
CustomRoots ==
    {None} \cup Roots({"dict", "obj"}, "custom",
                      {<<"dict", {}>>, <<"dict", {"f"}>>, <<"obj", {"f"}>>})

Segments == {"custom", "f", "g"}

FnStrings == SeqsOf(Segments, 1, MaxPath)

NotResolved == [status |-> "none", node |-> None, msg |-> ""]

ResolverIdle ==
    /\ fn_string = <<>>
    /\ stock_functions = None
    /\ custom_functions = None
    /\ default_stock_functions = ""
    /\ resolved = NotResolved

----------------------------------------------------------------------------
(* Inputs of the Parameter Binder *)

BinderKeys == <<"functions", "variables", "error", "x">>

\* The dict holding the keys of S, each with a value tagged by where it is from
TaggedDict(S, tag) ==
    LET keys == SelectSeq(BinderKeys, LAMBDA k : k \in S)
    IN  [i \in 1..Len(keys) |-> <<keys[i], tag \o keys[i]>>]

ParamDicts == {TaggedDict(S, "param:") : S \in SUBSET Range(BinderKeys)}

CommonDicts == {TaggedDict(S, "common:") : S \in SUBSET Range(BinderKeys)}

NotBound == << <<"", "not bound">> >>

BinderIdle ==
    /\ params = <<>>
    /\ fn_args = {}
    /\ functions = ""
    /\ variables = ""
    /\ error = ""
    /\ common_params = <<>>
    /\ bound = NotBound

----------------------------------------------------------------------------
(* Inputs of the Column Matcher *)

ColumnNames == {<<"a">>, <<"a", "b">>, <<"b", "a">>}

ColumnLists == {s \in SeqsOf(ColumnNames, 0, MaxCols) : NoDup(s)}

\* Single-entry specifications: a wildcard key paired with a wildcard value
WildKeys == {k \in SeqsOf({"a", DOT, STAR}, 1, MaxPatLen) : ContainsStar(k)}

WildValues == {v \in SeqsOf({"b", STAR}, 1, MaxPatLen) : ContainsStar(v)}

WildSpecs == {<< <<k, v>> >> : k \in WildKeys, v \in WildValues}

\* Multi-entry specifications: literal, optional, wildcard and regex keys
\* A column may itself be named with a trailing "?"
PoolNames == {<<"a">>, <<"b">>, <<"a", "b">>, <<"a", QMARK>>}

PoolLists == {s \in SeqsOf(PoolNames, 0, MaxCols) : NoDup(s)}

PoolKeys == {<<"a">>, <<"b">>, <<"a", QMARK>>, <<"b", QMARK>>,
             <<"a", STAR>>, <<REGEX, GROUP, "b">>}

PoolValues == {<<"c", STAR>>, <<STAR, STAR>>}

PoolEntries == {<<k, v>> : k \in PoolKeys, v \in PoolValues}

PoolSpecs == {d \in SeqsOf(PoolEntries, 0, MaxEntries) : NoDup(DictKeys(d))}

\* Identity specifications: every column renamed to itself, the names taken
\* as they come (empty, with a dot, with the prefix in another letter case)
IdNames == {<<"a">>, <<"b">>, <<"a", DOT>>, <<REGEX_UPPER, "a">>, <<>>}

IdLists == {s \in SeqsOf(IdNames, 0, MaxCols) : NoDup(s)}

Identity(cols) == [i \in 1..Len(cols) |-> <<cols[i], cols[i]>>]

\* Single-entry specifications with a regex key: valid, not compilable, and
\* with rename values referring to groups the key has or has not
RegexKeys == {<<REGEX, GROUP, "b">>, <<REGEX, LPAREN, "b">>, <<REGEX_UPPER, "a", GROUP>>}

RegexValues == {<<"c", GroupRef(1)>>, <<"c", GroupRef(2)>>, <<"c">>}

RegexSpecs == {<< <<k, v>> >> : k \in RegexKeys, v \in RegexValues}

\* Selections given to both expansions: the mapping of every selected key
\* to itself
Selections == {l \in SeqsOf(PoolKeys, 0, MaxEntries) : NoDup(l)}

NotRun == [status |-> "none", value |-> <<>>, msg |-> <<>>]

----------------------------------------------------------------------------
(* Inputs of a step *)

\* The dictionaries of the rows of columns d and e
RowTexts == << <<"{k:1,l:2}", "{k:3}">>, <<"{}", "{l:4}">>, <<"{m:5}", "{k:3}">> >>

RowText(i, c) == RowTexts[((i - 1) % Len(RowTexts)) + 1][c]

\* A table of n rows: column a holds texts, column b integers, column d
\* dictionaries as JSON texts, column e dictionaries and column ab texts
\* with spaces around them
Table(n) ==
    << <<"a", [i \in 1..n |-> Str("a" \o ToString(i))]>>,
       <<"b", [i \in 1..n |-> Num(i)]>>,
       <<"d", [i \in 1..n |-> Str(RowText(i, 1))]>>,
       <<"e", [i \in 1..n |-> DictCell(RowText(i, 2))]>>,
       <<"ab", [i \in 1..n |-> Str(" x" \o ToString(i) \o " ")]>> >>

Tables == {Table(n) : n \in 0..MaxRows}

\* Column z is not in the table
InputSpecs ==
    {Scalar(c) : c \in {"a", "b", "z"}} \cup {List(<<"a", "z">>)}
        \cup {List(l) : l \in SeqsOf({"a", "b"}, 0, MaxIn)}

\* Columns o and p are not in the table
OutputSpecs ==
    {Unset, List(<<"p", "o">>)} \cup {Scalar(c) : c \in {"o", "b"}}
        \cup {List(l) : l \in SeqsOf({"o", "b"}, 0, MaxOut)}

\* The method of split.tokenize with the custom functions of the recipe
MethodSpecs ==
    {<<m, None>> : m \in {<<"space">>, <<"regex:x">>, <<"custom">>, <<"words">>}}
        \cup {<<m, f>> : m \in {<<"custom", "f">>, <<"custom", "g">>},
                         f \in {None, Namespace("dict", <<"custom">>, {"f"})}}

\* The range of extract.date_range: two frequencies and a word that is none
Ranges == {"days", "years", "eons"}

\* The input of a wrangle that takes one column, and its output
OneInput == {Scalar(c) : c \in {"a", "b", "e", "z"}}

OneOutput == {Unset} \cup {Scalar(c) : c \in {"o", "b"}}

ModelIds == {Scalar("m"), List(<<"m">>), List(<<"m", "n">>), List(<<>>)}

Finds == {<<"round">>, <<"oval">>}

PropertyNames == {"day", "era"}

\* Inputs of split.dictionary: the dictionary columns in both orders, a
\* column that holds no dictionaries and a column that is not in the table
DictInputs ==
    {Scalar("d"), Scalar("z"), List(<<>>), List(<<"d", "e">>), List(<<"e", "d">>),
     List(<<"e", "a">>)}

\* Outputs of split.dictionary: none, a key, a key renamed, every key, a
\* key no row has
Renames ==
    {<<>>, << << <<"k">>, <<"k">> >> >>, << << <<"k">>, <<"n">> >> >>,
     << << <<STAR>>, <<STAR>> >> >>, << << <<"z">>, <<"z">> >> >>,
     << << <<"l">>, <<"l">> >>, << <<"k">>, <<"n">> >> >>}

Defaults == {"{}", "{k:0}", "{m:9}"}

WhereSpecs(t) == {NoWhere} \cup {Where(m) : m \in SeqsOf(BOOLEAN, NRows(t), NRows(t))}

NoStep == [wrangle |-> "", input |-> Unset, output |-> Unset, model_id |-> Unset,
           find |-> <<>>, property |-> "", rename |-> <<>>, default |-> "{}",
     method |-> <<"space">>, fns |-> None, range |-> "days",
           where |-> NoWhere]

\* A step of the given wrangle with the defaults of the options it does not take
Step(wrangle, input, output, where) ==
    [wrangle |-> wrangle, input |-> input, output |-> output, model_id |-> Unset,
     find |-> <<"all">>, property |-> "", rename |-> <<>>, default |-> "{}",
     method |-> <<"space">>, fns |-> None, range |-> "days",
     where |-> where]

Ready == [status |-> "ready", msg |-> ""]

StepIdle ==
    /\ table0 = <<>>
    /\ step = NoStep
    /\ df = <<>>
    /\ calls = <<>>
    /\ outcome = [status |-> "idle", msg |-> ""]

----------------------------------------------------------------------------
(* Column Matcher: the two expansions applied to one input *)

MatcherIdle ==
    /\ all_columns = <<>>
    /\ selected_columns = <<>>
    /\ result_columns = NotRun
    /\ names_result = NotRun
    /\ done = {}

InitMatcher ==
    /\ ResolverIdle
    /\ BinderIdle
    /\ StepIdle
    /\ \/ all_columns \in ColumnLists /\ selected_columns \in WildSpecs
       \/ all_columns \in PoolLists /\ selected_columns \in PoolSpecs
       \/ all_columns \in IdLists /\ selected_columns = Identity(all_columns)
       \/ all_columns \in PoolLists /\ selected_columns \in RegexSpecs
       \/ all_columns \in PoolLists /\ selected_columns \in {Identity(l) : l \in Selections}
    /\ result_columns = NotRun
    /\ names_result = NotRun
    /\ done = {}

CallExpansionDict ==
    /\ "dict" \notin done
    /\ result_columns' = wildcard_expansion_dict(all_columns, selected_columns)
    /\ done' = done \cup {"dict"}
    /\ UNCHANGED <<all_columns, selected_columns, names_result, resolverVars, binderVars, stepVars>>

CallExpansion ==
    /\ "names" \notin done
    /\ names_result' = wildcard_expansion(all_columns, DictKeys(selected_columns))
    /\ done' = done \cup {"names"}
    /\ UNCHANGED <<all_columns, selected_columns, result_columns, resolverVars, binderVars, stepVars>>

NextMatcher == CallExpansionDict \/ CallExpansion

SpecMatcher == InitMatcher /\ [][NextMatcher]_vars

----------------------------------------------------------------------------
(* Function Resolver: one resolution of one dotted name *)

InitResolver ==
    /\ MatcherIdle
    /\ BinderIdle
    /\ StepIdle
    /\ fn_string \in FnStrings
    /\ stock_functions \in StockRoots
    /\ custom_functions \in CustomRoots
    /\ default_stock_functions \in {"", "f"}
    /\ resolved = NotResolved

CallResolver ==
    /\ resolved = NotResolved
    /\ resolved' = get_nested_function(fn_string, stock_functions,
                                       custom_functions, default_stock_functions)
    /\ UNCHANGED <<fn_string, stock_functions, custom_functions,
                   default_stock_functions, matcherVars, binderVars, stepVars>>

NextResolver == CallResolver

SpecResolver == InitResolver /\ [][NextResolver]_vars

----------------------------------------------------------------------------
(* Parameter Binder: one binding of one callable *)

InitBinder ==
    /\ MatcherIdle
    /\ ResolverIdle
    /\ StepIdle
    /\ params \in ParamDicts
    /\ fn_args \in SUBSET Range(BinderKeys)
    /\ functions = "functions table"
    /\ variables \in {"variables 1", "variables 2"}
    /\ error \in {"", "exception"}
    /\ common_params \in CommonDicts
    /\ bound = NotBound

CallBinder ==
    /\ bound = NotBound
    /\ bound' = add_special_parameters(params, fn_args, functions, variables,
                                       error, common_params)
    /\ UNCHANGED <<params, fn_args, functions, variables, error, common_params,
                   matcherVars, resolverVars, stepVars>>

NextBinder == CallBinder

SpecBinder == InitBinder /\ [][NextBinder]_vars

----------------------------------------------------------------------------
(* Steps: one step of a recipe applied to one table *)

InitSteps ==
    /\ MatcherIdle
    /\ ResolverIdle
    /\ BinderIdle
    /\ table0 \in Tables
    /\ step = NoStep
    /\ df = table0
    /\ calls = <<>>
    /\ outcome = Ready

\* The step runs to its end: the table is the one the wrangle left behind
Finish(st, r) ==
    /\ df' = r.df
    /\ calls' = r.calls
    /\ outcome' = [status |-> r.status, msg |-> r.msg]
    /\ step' = st
    /\ UNCHANGED <<table0, matcherVars, resolverVars, binderVars>>

Execute(st) == \E r \in {RunStep(st, table0)} : Finish(st, r)

Address ==
    /\ outcome = Ready
    /\ \E i \in InputSpecs, o \in OutputSpecs, w \in WhereSpecs(table0) :
           Execute(Step("extract.address", i, o, w))

Attributes ==
    /\ outcome = Ready
    /\ \E i \in InputSpecs, o \in OutputSpecs, w \in WhereSpecs(table0) :
           Execute(Step("extract.attributes", i, o, w))

Brackets ==
    /\ outcome = Ready
    /\ \E i \in InputSpecs, o \in OutputSpecs, w \in WhereSpecs(table0), f \in Finds :
           Execute([Step("extract.brackets", i, o, w) EXCEPT !.find = f])

Codes ==
    /\ outcome = Ready
    /\ \E i \in InputSpecs, o \in OutputSpecs, w \in WhereSpecs(table0) :
           Execute(Step("extract.codes", i, o, w))

Custom ==
    /\ outcome = Ready
    /\ \E i \in InputSpecs, o \in OutputSpecs, w \in WhereSpecs(table0), m \in ModelIds :
           Execute([Step("extract.custom", i, o, w) EXCEPT !.model_id = m])

DateProps ==
    /\ outcome = Ready
    /\ \E i \in InputSpecs, o \in OutputSpecs, w \in WhereSpecs(table0), p \in PropertyNames :
           Execute([Step("extract.date_properties", i, o, w) EXCEPT !.property = p])

Html ==
    /\ outcome = Ready
    /\ \E i \in InputSpecs, o \in OutputSpecs, w \in WhereSpecs(table0) :
           Execute(Step("extract.html", i, o, w))

Properties ==
    /\ outcome = Ready
    /\ \E i \in InputSpecs, o \in OutputSpecs, w \in WhereSpecs(table0) :
           Execute(Step("extract.properties", i, o, w))

Regex ==
    /\ outcome = Ready
    /\ \E i \in InputSpecs, o \in OutputSpecs, w \in WhereSpecs(table0) :
           Execute(Step("extract.regex", i, o, w))

\* start_time and end_time are held as the input list of the step
DateRange ==
    /\ outcome = Ready
    /\ \E b \in {"a", "b", "z"}, e \in {"a", "b", "z"}, o \in {"o", "a", "b"}, r \in Ranges :
           LET st == [Step("extract.date_range", List(<<b, e>>), Scalar(o), NoWhere)
                         EXCEPT !.range = r]
           IN  \E res \in {date_range(table0, b, e, o, r)} : Finish(st, res)

Dictionary ==
    /\ outcome = Ready
    /\ \E i \in DictInputs, r \in Renames, d \in Defaults :
           LET st == [Step("split.dictionary", i,
                           IF r = <<>> THEN Unset ELSE List(<<>>), NoWhere)
                         EXCEPT !.rename = r, !.default = d]
           IN  \E res \in {dictionary(table0, st.input, st.output, st.rename, st.default)} :
                   Finish(st, res)

Tokenize ==
    /\ outcome = Ready
    /\ \E i \in InputSpecs, o \in OutputSpecs, m \in MethodSpecs, w \in WhereSpecs(table0) :
           Execute([Step("split.tokenize", i, o, w) EXCEPT !.method = m[1], !.fns = m[2]])

Trim ==
    /\ outcome = Ready
    /\ \E i \in InputSpecs \cup {Scalar("e"), Scalar("ab"), Scalar("zb")},
          o \in OutputSpecs, w \in WhereSpecs(table0) :
           Execute(Step("format.trim", i, o, w))

Prefix ==
    /\ outcome = Ready
    /\ \E i \in OneInput, o \in OneOutput, w \in WhereSpecs(table0) :
           Execute(Step("format.prefix", i, o, w))

Suffix ==
    /\ outcome = Ready
    /\ \E i \in OneInput, o \in OneOutput, w \in WhereSpecs(table0) :
           Execute(Step("format.suffix", i, o, w))

DateFormat ==
    /\ outcome = Ready
    /\ \E i \in OneInput, o \in OneOutput, w \in WhereSpecs(table0) :
           Execute(Step("format.date_format", i, o, w))

RemoveDuplicates ==
    /\ outcome = Ready
    /\ \E i \in OneInput, o \in OneOutput, w \in WhereSpecs(table0) :
           Execute(Step("format.remove_duplicates", i, o, w))

NextSteps ==
    \/ DateRange
    \/ Tokenize
    \/ Trim
    \/ Prefix
    \/ Suffix
    \/ DateFormat
    \/ RemoveDuplicates
    \/ Dictionary
    \/ Address
    \/ Attributes
    \/ Brackets
    \/ Codes
    \/ Custom
    \/ DateProps
    \/ Html
    \/ Properties
    \/ Regex

SpecSteps == InitSteps /\ [][NextSteps]_vars

----------------------------------------------------------------------------
(* Cardinality of input and output lists *)

\* The step's input and output lists after normalisation
StepInputs == AsList(step.input)

StepOutputs == AsList(OutputOrInput(step.input, step.output))

CheckedWrangles ==
    {"extract.address", "extract.attributes", "extract.brackets", "extract.codes",
     "extract.properties", "extract.html", "extract.regex", "extract.date_properties"}

\* C2: a step of address, attributes, brackets, codes, properties, html,
\* regex or date_properties whose output list has more than one column and a
\* length other than the input list's fails with the cardinality ValueError,
\* the table is as it was and no transform has been invoked.
C2_CardinalityEnforced ==
    (/\ step.wrangle \in CheckedWrangles
     /\ ~step.where.on
     /\ Len(StepOutputs) > 1
     /\ Len(StepOutputs) # Len(StepInputs))
        => /\ outcome = [status |-> "ValueError",
                         msg |-> "Extract must output to a single column or equal amount of columns as input."]
           /\ df = table0
           /\ calls = <<>>

\* C2 witness: two inputs and three outputs given to extract.regex on a
\* table with rows, rejected with the table untouched.
C2_Witness ==
    /\ step.wrangle = "extract.regex"
    /\ step.input = List(<<"a", "b">>)
    /\ step.output = List(<<"o", "b", "o">>)
    /\ ~step.where.on
    /\ NRows(table0) = 2
    /\ outcome.status = "ValueError"
    /\ df = table0

----------------------------------------------------------------------------
(* Aggregate mode *)

Separator(wrangle) ==
    IF wrangle \in {"extract.attributes", "extract.codes"} THEN " AAA " ELSE " "

AggregateWrangles ==
    {"extract.address", "extract.brackets", "extract.properties", "extract.custom",
     "extract.attributes", "extract.codes"}

\* Row i of the table before the step: the texts of the input columns, in
\* input-list order, joined with the separator
JoinedRow(i) ==
    Str(Join(Separator(step.wrangle),
             [k \in 1..Len(StepInputs) |-> AsStr(DictGet(table0, StepInputs[k])[i])]))

JoinedRows == [i \in 1..NRows(table0) |-> JoinedRow(i)]

\* The step has several inputs, all in the table, one output, and valid options
AggregateStep ==
    /\ step.wrangle \in AggregateWrangles
    /\ ~step.where.on
    /\ Len(StepInputs) > 1
    /\ Len(StepOutputs) = 1
    /\ \A k \in 1..Len(StepInputs) : HasColumn(table0, StepInputs[k])
    /\ step.wrangle = "extract.brackets" => Range(step.find) \subseteq BracketTypes

\* C3: with several input columns and one output column, address, brackets,
\* properties, custom, attributes and codes invoke the transform exactly once,
\* on the rows joined in input-list order, and assign its result to the
\* output column.
C3_AggregateMode ==
    AggregateStep
        => /\ outcome.status = "ok"
           /\ Len(calls) = 1
           /\ calls[1].args = JoinedRows
           /\ df = DictSet(table0, StepOutputs[1], Transform(calls[1].fn, JoinedRows))

----------------------------------------------------------------------------
(* Where *)

EmptyText == [t |-> "str", v |-> ""]

EmptyList == [t |-> "list", v |-> ""]

\* The transform each wrangle applies
TransformOf(wrangle) ==
    CASE wrangle = "extract.address" -> "address"
      [] wrangle = "extract.attributes" -> "attributes"
      [] wrangle = "extract.brackets" -> "brackets"
      [] wrangle = "extract.codes" -> "codes"
      [] wrangle = "extract.custom" -> "custom:m"
      [] wrangle = "extract.date_properties" -> "date"
      [] wrangle = "extract.html" -> "html"
      [] wrangle = "extract.properties" -> "properties"
      [] wrangle = "extract.regex" -> "regex"
      [] wrangle = "split.tokenize" -> "tokenize"
      [] wrangle = "format.trim" -> "strip"
      [] wrangle = "format.prefix" -> "prefix"
      [] wrangle = "format.suffix" -> "suffix"
      [] wrangle = "format.date_format" -> "strftime"
      [] wrangle = "format.remove_duplicates" -> "dedupe"

\* The placeholder as the claim has it: by the shape of the wrangle's results
ShapedPlaceholder(wrangle) ==
    IF ResultType(TransformOf(wrangle)) = "list" THEN EmptyList ELSE EmptyText

\* The table holding row i alone
RowTable(t, i) == FilterRows(t, [j \in 1..NRows(t) |-> j = i])

\* The value the step's wrangle computes in column o for row i taken alone
ComputedFor(o, i) == DictGet(Dispatch(step, RowTable(table0, i)).df, o)[1]

\* The rows of the table are those of the original, in order: every column
\* has the original number of rows and the columns that are not outputs are
\* the original ones
RowsPreserved ==
    /\ \A c \in 1..Len(df) : Len(df[c][2]) = NRows(table0)
    /\ \A c \in 1..Len(table0) :
          table0[c][1] \notin Range(StepOutputs) => df[c] = table0[c]

\* The where merge with the given placeholder per wrangle
WhereMerged(placeholder(_)) ==
    (step.where.on /\ outcome.status = "ok")
        => /\ RowsPreserved
           /\ \A k \in 1..Len(StepOutputs), i \in 1..NRows(table0) :
                 DictGet(df, StepOutputs[k])[i] =
                    IF step.where.mask[i] THEN ComputedFor(StepOutputs[k], i)
                    ELSE placeholder(step.wrangle)

\* C4 as claimed: after a step with a where predicate the rows are the
\* original ones in order, a selected row of an output column holds the value
\* computed for that row, and a row left out holds "" when the wrangle's
\* results are scalar and [] when they are lists.
C4_WhereMerge_AsClaimed == WhereMerged(ShapedPlaceholder)

AlwaysEmptyText(wrangle) == EmptyText

\* C4: after a step with a where predicate the rows are the original ones in
\* order, a selected row of an output column holds the value computed for
\* that row, and a row left out holds "" whatever the shape of the results.
C4_WhereMerge == WhereMerged(AlwaysEmptyText)

\* C4 witness: extract.regex from a to o with the first of two rows left out:
\* the first row holds "" and the second the list computed for it.
C4_Witness ==
    /\ step.wrangle = "extract.regex"
    /\ step.input = Scalar("a")
    /\ step.output = Scalar("o")
    /\ step.where = Where(<<FALSE, TRUE>>)
    /\ outcome.status = "ok"
    /\ DictGet(df, "o") = <<EmptyText, Result("regex", Str("a2"))>>

----------------------------------------------------------------------------
(* Wildcard semantics, stated independently of the regex translation *)

StarCount(w) == Cardinality({i \in 1..Len(w) : UnescapedStar(w, i)})

Substrings(c) == {SubSeq(c, i, j) : i \in 1..(Len(c) + 1), j \in 0..Len(c)}

\* w with its stars, from the left, replaced by texts[n], texts[n + 1], ...
RECURSIVE Fill(_, _, _)
Fill(w, texts, n) ==
    IF w = <<>> THEN <<>>
    ELSE IF Head(w) = STAR THEN texts[n] \o Fill(Tail(w), texts, n + 1)
    ELSE <<Head(w)>> \o Fill(Tail(w), texts, n)

\* Every character of the key other than * stands for itself
LiteralFit(key, texts, col) == Fill(key, texts, 1) = col

\* Every character of the key other than * is read as regex syntax
PatternFit(key, texts, col) ==
    LET f == Fill(key, texts, 1)
    IN  Len(f) = Len(col) /\ \A i \in 1..Len(f) : f[i] = DOT \/ f[i] = col[i]

Assignments(key, col) == [1..StarCount(key) -> Substrings(col)]

IsWildSpec(d) ==
    /\ Len(d) = 1
    /\ ~StartsWithRegex(d[1][1])
    /\ StarCount(d[1][1]) > 0
    /\ StarCount(d[1][2]) > 0

\* C1 (as claimed): a single wildcard entry key -> value yields, for exactly
\* the columns that fully match the key with every * standing for any text
\* and every other character for itself, in table order, the value with its
\* k-th * replaced by the text the key's k-th * matched.
C1_WildcardRename_AsClaimed ==
    ("dict" \in done /\ IsWildSpec(selected_columns)) =>
        LET key == selected_columns[1][1]
            value == selected_columns[1][2]
            matched == SelectSeq(all_columns,
                          LAMBDA c : \E t \in Assignments(key, c) : LiteralFit(key, t, c))
        IN  /\ result_columns.status = "ok"
            /\ DictKeys(result_columns.value) = matched
            /\ \A i \in 1..Len(result_columns.value) :
                  /\ StarCount(value) <= StarCount(key)
                  /\ \E t \in Assignments(key, matched[i]) :
                        /\ LiteralFit(key, t, matched[i])
                        /\ result_columns.value[i][2] = Fill(value, t, 1)

\* C1 (amended): the characters of the key other than * are read as regex
\* syntax; when the value has more * than the key and a column matches, the
\* call fails with the invalid-pattern error naming the converted value;
\* otherwise the result maps exactly the matching columns, in table order,
\* to the value with its k-th * replaced by the text of the key's k-th *.
C1_WildcardRename ==
    ("dict" \in done /\ IsWildSpec(selected_columns)) =>
        LET key == selected_columns[1][1]
            value == selected_columns[1][2]
            matched == SelectSeq(all_columns,
                          LAMBDA c : \E t \in Assignments(key, c) : PatternFit(key, t, c))
        IN  IF StarCount(value) > StarCount(key) /\ matched # <<>>
            THEN /\ result_columns.status = "ValueError"
                 /\ result_columns.msg = WildcardToTemplate(value)
            ELSE /\ result_columns.status = "ok"
                 /\ DictKeys(result_columns.value) = matched
                 /\ \A i \in 1..Len(matched) :
                       \E t \in Assignments(key, matched[i]) :
                          /\ PatternFit(key, t, matched[i])
                          /\ result_columns.value[i][2] = Fill(value, t, 1)

\* C1 witness: a two-star key renamed two columns out of order-preserving
\* matches while a third form (no match) is also exercised elsewhere
C1_Witness ==
    /\ "dict" \in done
    /\ IsWildSpec(selected_columns)
    /\ StarCount(selected_columns[1][1]) = 2
    /\ StarCount(selected_columns[1][2]) = 2
    /\ Len(all_columns) = 2
    /\ result_columns.status = "ok"
    /\ Len(result_columns.value) = 1
    /\ result_columns.value[1][1] = all_columns[2]
    /\ result_columns.value[1][2] # all_columns[2]

----------------------------------------------------------------------------
(* Missing required column *)

\* A literal entry that is not marked optional
RequiredLiteral(k) ==
    ~StartsWithRegex(k) /\ ~ContainsStar(k) /\ k # <<>> /\ k[Len(k)] # QMARK

\* Positions of the required literal entries naming an absent column
MissingAt(d, cols) ==
    {i \in 1..Len(d) : RequiredLiteral(d[i][1]) /\ d[i][1] \notin Range(cols)}

\* C10 (as claimed): every required literal entry naming an absent column
\* makes both expansions fail with the missing-column error naming that
\* column, whatever the other entries are.
C10_MissingColumn_AsClaimed ==
    \A i \in MissingAt(selected_columns, all_columns) :
        /\ "dict" \in done => result_columns = MissingColumn(selected_columns[i][1])
        /\ "names" \in done => names_result = MissingColumn(selected_columns[i][1])

\* The failure of either expansion when a required column is absent: no
\* mapping; a missing-column error names the first absent required column
\* in declaration order; it is that error whenever only literal entries
\* that are not marked optional are declared before it.
FailsOnMissing(res, d, cols) ==
    LET first == Min(MissingAt(d, cols))
    IN  /\ res.status \in {"MissingColumn", "ValueError", "LookupError"}
        /\ res.value = <<>>
        /\ res.status = "MissingColumn" => res.msg = d[first][1]
        /\ (\A j \in 1..(first - 1) : RequiredLiteral(d[j][1]))
              => res.status = "MissingColumn"

\* C10 (amended): with a required literal entry naming an absent column both
\* expansions fail and return no mapping; the missing-column error names
\* the first such column in declaration order, and an entry declared before
\* it may fail first with its own error.
C10_MissingColumn ==
    MissingAt(selected_columns, all_columns) # {} =>
        /\ "dict" \in done =>
              FailsOnMissing(result_columns, selected_columns, all_columns)
        /\ "names" \in done =>
              /\ FailsOnMissing(names_result, selected_columns, all_columns)
              /\ names_result.status = "MissingColumn"

\* C10 witness: a valid wildcard entry that matches a column is declared
\* before the absent required column, and both expansions have failed
C10_Witness ==
    /\ done = {"dict", "names"}
    /\ Len(selected_columns) = 2
    /\ ContainsStar(selected_columns[1][1])
    /\ MissingAt(selected_columns, all_columns) = {2}
    /\ all_columns # <<>>
    /\ result_columns = MissingColumn(selected_columns[2][1])
    /\ names_result = MissingColumn(selected_columns[2][1])

----------------------------------------------------------------------------
(* Optional columns *)

\* The name an optional key stands for
Stripped(k) == Take(k, Len(k) - 1)

\* A literal key marked optional
OptionalLiteral(k) ==
    ~StartsWithRegex(k) /\ ~ContainsStar(k) /\ k # <<>> /\ k[Len(k)] = QMARK

\* A key name? for which neither name? nor name is a table column
AbsentOptional(k, cols) ==
    OptionalLiteral(k) /\ k \notin Range(cols) /\ Stripped(k) \notin Range(cols)

\* The specification without its absent optional entries
WithoutAbsentOptional(d, cols) ==
    SelectSeq(d, LAMBDA e : ~AbsentOptional(e[1], cols))

\* C11: an entry name? for which neither name? nor name is a table column is
\* skipped: the outcome of expand is the one of the specification without
\* that entry, the result has no entry for name? or name, and a
\* specification of such entries alone returns the empty mapping.
C11_OptionalAbsentSkipped ==
    "dict" \in done =>
        /\ result_columns =
              wildcard_expansion_dict(all_columns,
                  WithoutAbsentOptional(selected_columns, all_columns))
        /\ \A i \in 1..Len(selected_columns) :
              AbsentOptional(selected_columns[i][1], all_columns) =>
                 /\ ~DictHas(result_columns.value, selected_columns[i][1])
                 /\ ~DictHas(result_columns.value, Stripped(selected_columns[i][1]))
        /\ (\A i \in 1..Len(selected_columns) :
               AbsentOptional(selected_columns[i][1], all_columns))
              => result_columns = Ok(<<>>)

\* C11 witness: b? is declared after a literal entry for the only column a;
\* expand returns the entry of a alone.
C11_Witness ==
    /\ "dict" \in done
    /\ all_columns = << <<"a">> >>
    /\ Len(selected_columns) = 2
    /\ selected_columns[1][1] = <<"a">>
    /\ selected_columns[2][1] = <<"b", QMARK>>
    /\ result_columns = Ok(<< selected_columns[1] >>)

----------------------------------------------------------------------------
(* Literal and wildcard entries selecting the same column *)

\* A key without wildcard and without the regex prefix
LiteralKey(k) == ~StartsWithRegex(k) /\ ~ContainsStar(k)

\* The pattern a wildcard or regex key stands for
PatternOf(k) == IF StartsWithRegex(k) THEN Tail(k) ELSE WildcardToPattern(k)

\* Entry i is a literal key naming a column that the wildcard or regex key
\* of entry j matches
Overlap(i, j) ==
    /\ LiteralKey(selected_columns[i][1])
    /\ selected_columns[i][1] \in Range(all_columns)
    /\ ~LiteralKey(selected_columns[j][1])
    /\ FullMatch(PatternOf(selected_columns[j][1]), selected_columns[i][1]).ok

\* C12: a column selected by a literal key and by a wildcard or regex key of
\* the same specification is mapped to the literal key's rename target,
\* whether the literal key is declared before or after the other.
C12_LiteralPrecedence ==
    ("dict" \in done /\ result_columns.status = "ok") =>
        \A i, j \in 1..Len(selected_columns) :
            Overlap(i, j) =>
                /\ DictHas(result_columns.value, selected_columns[i][1])
                /\ DictGet(result_columns.value, selected_columns[i][1])
                      = selected_columns[i][2]

\* C12 witness: the literal key a is declared before the wildcard key a*,
\* which matches the columns a and ab; a keeps the literal target.
C12_Witness ==
    /\ "dict" \in done
    /\ all_columns = << <<"a">>, <<"a", "b">> >>
    /\ selected_columns = << << <<"a">>, <<STAR, STAR>> >>, << <<"a", STAR>>, <<"c", STAR>> >> >>
    /\ result_columns = Ok(<< << <<"a">>, <<STAR, STAR>> >>, << <<"a", "b">>, <<"c", "b">> >> >>)

----------------------------------------------------------------------------
(* Order of the entries of the result *)

\* Entry j is a wildcard or regex key matching column c
Matches(j, c) ==
    /\ ~LiteralKey(selected_columns[j][1])
    /\ FullMatch(PatternOf(selected_columns[j][1]), c).ok

MatchedByPattern(c) == \E j \in 1..Len(selected_columns) : Matches(j, c)

\* The column a literal entry selects (<<>> when it selects none)
LiteralColumn(i) ==
    LET k == selected_columns[i][1]
    IN  IF ~LiteralKey(k) THEN <<>>
        ELSE IF k \in Range(all_columns) THEN k
        ELSE IF k # <<>> /\ k[Len(k)] = QMARK /\ Stripped(k) \in Range(all_columns)
        THEN Stripped(k)
        ELSE <<>>

\* The columns selected by literal keys only, in declaration order
RECURSIVE LiteralOnly(_, _)
LiteralOnly(i, seen) ==
    IF i > Len(selected_columns) THEN <<>>
    ELSE LET c == LiteralColumn(i)
         IN  IF c = <<>> \/ c \in seen \/ MatchedByPattern(c)
             THEN LiteralOnly(i + 1, seen)
             ELSE <<c>> \o LiteralOnly(i + 1, seen \cup {c})

\* The columns matched by patterns, the patterns taken in declaration order
\* and a column listed with the first pattern matching it
RECURSIVE PatternsForward(_, _)
PatternsForward(j, seen) ==
    IF j > Len(selected_columns) THEN <<>>
    ELSE LET group == SelectSeq(all_columns, LAMBDA c : Matches(j, c) /\ c \notin seen)
         IN  group \o PatternsForward(j + 1, seen \cup Range(group))

\* C13: the keys of the result are the columns matched by
\* wildcard or regex keys, pattern by pattern in declaration order and in
\* table order within a pattern, followed by the columns of literal keys.
C13_ResultOrder ==
    ("dict" \in done /\ result_columns.status = "ok") =>
        DictKeys(result_columns.value) = PatternsForward(1, {}) \o LiteralOnly(1, {})

----------------------------------------------------------------------------
(* Identity specification *)

\* A name without wildcard and without a trailing "?"
PlainName(c) == ~ContainsStar(c) /\ (c = <<>> \/ c[Len(c)] # QMARK)

\* The identity specification of the table's columns has been expanded
IdentityExpanded ==
    /\ "dict" \in done
    /\ selected_columns = Identity(all_columns)
    /\ \A i \in 1..Len(all_columns) : PlainName(all_columns[i])

\* C14 as claimed: for columns without *, without a trailing ? and without
\* the prefix regex:, the identity specification expands to the mapping of
\* every column to itself, in column order.
C14_IdentityRoundtrip_AsClaimed ==
    (IdentityExpanded
        /\ \A i \in 1..Len(all_columns) :
              all_columns[i] = <<>> \/ Head(all_columns[i]) # REGEX)
        => result_columns = Ok(Identity(all_columns))

\* C14: for columns with non-empty names without *, without a trailing ? and
\* without the prefix regex: in any letter case, the identity specification
\* expands to the mapping of every column to itself, in column order.
C14_IdentityRoundtrip ==
    (IdentityExpanded
        /\ \A i \in 1..Len(all_columns) :
              all_columns[i] # <<>> /\ ~StartsWithRegex(all_columns[i]))
        => result_columns = Ok(Identity(all_columns))

\* C14 witness: the identity specification of the columns b and a. (a name
\* holding a regex character) came back as it is, in column order.
C14_Witness ==
    /\ "dict" \in done
    /\ all_columns = << <<"b">>, <<"a", DOT>> >>
    /\ selected_columns = Identity(all_columns)
    /\ result_columns = Ok(<< << <<"b">>, <<"b">> >>, << <<"a", DOT>>, <<"a", DOT>> >> >>)

----------------------------------------------------------------------------
(* Invalid regex rename *)

\* The largest group a rename value refers to (0 when it refers to none)
MaxGroupRef(v) ==
    Max({0} \cup {n \in 1..MaxPatLen : \E i \in 1..Len(v) : v[i] = GroupRef(n)})

\* Entry i has a regex: key that cannot be compiled, or a rename value that
\* refers to a capture group its key does not define
InvalidRegexEntry(i) ==
    LET k == selected_columns[i][1]
        v == selected_columns[i][2]
    IN  /\ StartsWithRegex(k)
        /\ \/ \E n \in 1..Len(k) : k[n] = LPAREN
           \/ MaxGroupRef(v) > Cardinality({n \in 1..Len(k) : k[n] = GROUP})

\* C15: a specification with a regex: key that cannot be compiled, or whose
\* rename value refers to a capture group the key does not define, makes
\* expand fail with the configuration error (ValueError) naming the invalid
\* pattern, for every list of columns.
C15_InvalidRegexRename ==
    "dict" \in done =>
        \A i \in 1..Len(selected_columns) :
            InvalidRegexEntry(i) =>
                /\ result_columns.status = "ValueError"
                /\ result_columns.msg \in
                      {selected_columns[i][1], Tail(selected_columns[i][1]),
                       selected_columns[i][2]}

----------------------------------------------------------------------------
(* The two expansions side by side *)

\* Both expansions have run on a selection and on the mapping of every
\* selected key to itself
BothExpanded ==
    /\ done = {"dict", "names"}
    /\ selected_columns = Identity(DictKeys(selected_columns))

\* C16: wildcard_expansion fails exactly when wildcard_expansion_dict fails
\* on the mapping of every selected key to itself, and otherwise returns,
\* without duplicates, exactly the columns that are the keys of that
\* expansion's result.
C16_NamesFollowExpand ==
    BothExpanded =>
        /\ names_result.status = "ok" <=> result_columns.status = "ok"
        /\ names_result.status = "ok" =>
              /\ NoDup(names_result.value)
              /\ Range(names_result.value) = Range(DictKeys(result_columns.value))

----------------------------------------------------------------------------
(* Optional column present *)

\* Entry i is written c? where c? is not a table column and c is
PresentOptional(i) ==
    LET k == selected_columns[i][1]
    IN  /\ OptionalLiteral(k)
        /\ k \notin Range(all_columns)
        /\ Stripped(k) \in Range(all_columns)

\* Another entry of the specification selects column c as well
SelectedByAnother(i, c) ==
    \E j \in 1..Len(selected_columns) :
        j # i /\ (Matches(j, c) \/ LiteralColumn(j) = c)

\* C19: an entry c? where c? is not a table column and c is does not make
\* either expansion fail; when they succeed both select c, and expand maps
\* c to the rename target paired with the key c?.
C19_OptionalPresent ==
    \A i \in 1..Len(selected_columns) :
        PresentOptional(i) =>
            LET c == Stripped(selected_columns[i][1])
            IN  /\ "dict" \in done =>
                      /\ result_columns.status # "LookupError"
                      /\ result_columns.status = "ok" =>
                            /\ DictHas(result_columns.value, c)
                            /\ ~SelectedByAnother(i, c) =>
                                  DictGet(result_columns.value, c) = selected_columns[i][2]
                /\ ("names" \in done /\ names_result.status = "ok") =>
                      c \in Range(names_result.value)

----------------------------------------------------------------------------
(* split.dictionary: several input columns and a default *)

\* The entries of the dictionary row i of an input column holds
CellDict(name, i) == DictOf(DictGet(table0, name)[i].v)

\* The positions in the input list of the columns whose dictionary of row i
\* has the key
Holders(i, key) ==
    {p \in 1..Len(StepInputs) : DictHas(CellDict(StepInputs[p], i), key)}

\* The columns a key is written to: its own without an output list, the
\* names the output list gives it otherwise
KeyColumns(key) ==
    IF step.output = Unset THEN {key}
    ELSE {NameOf(e[2]) : e \in {x \in Range(step.rename) : x[1] = <<key>>}}
            \cup {key : e \in {x \in Range(step.rename) : x[1] = <<STAR>>}}

\* C17: after a successful split.dictionary, for each row and each key, the
\* column of the key holds the value of the last input column, in input-list
\* order, whose dictionary of that row has the key; when no input dictionary
\* of the row has the key and default has it, the column holds the default
\* value, so a default never replaces a value of the row
C17_DictionaryLastWins ==
    (step.wrangle = "split.dictionary" /\ outcome.status = "ok") =>
        \A i \in 1..NRows(table0), key \in {"k", "l", "m"} :
            \A c \in KeyColumns(key) :
                /\ Holders(i, key) # {} =>
                      /\ HasColumn(df, c)
                      /\ DictGet(df, c)[i] =
                            DictGet(CellDict(StepInputs[Max(Holders(i, key))], i), key)
                /\ (Holders(i, key) = {} /\ DictHas(DictOf(step.default), key)) =>
                      /\ HasColumn(df, c)
                      /\ DictGet(df, c)[i] = DictGet(DictOf(step.default), key)

\* C17 witness: inputs d then e with default k: 0; row 1 has k in both
\* columns and takes the value of e, row 2 has k in neither and takes the
\* default
C17_Witness ==
    /\ step.wrangle = "split.dictionary"
    /\ step.input = List(<<"d", "e">>)
    /\ step.output = Unset
    /\ step.default = "{k:0}"
    /\ NRows(table0) = 2
    /\ outcome.status = "ok"
    /\ HasColumn(df, "k")
    /\ DictGet(df, "k") = <<Str("3"), Str("0")>>

----------------------------------------------------------------------------
(* Zipped mode: one pair after another *)

FanOutWrangles ==
    {"extract.address", "extract.attributes", "extract.codes", "extract.properties"}

\* C20: after a successful fan-out step with as many outputs as inputs and
\* distinct output names, every output column k holds the transform of the
\* values input column k had when the step started, also when the output of
\* one pair is the input of a later pair
C20_ZippedIndependent ==
    (/\ step.wrangle \in FanOutWrangles
     /\ ~step.where.on
     /\ outcome.status = "ok"
     /\ Len(StepInputs) = Len(StepOutputs)
     /\ NoDup(StepOutputs)) =>
        \A k \in 1..Len(StepInputs) :
            DictGet(df, StepOutputs[k]) =
                Transform(TransformOf(step.wrangle),
                          AsStrList(DictGet(table0, StepInputs[k])))

----------------------------------------------------------------------------
(* The shape of the table after a step *)

ShapeWrangles ==
    {"extract.address", "extract.attributes", "extract.brackets", "extract.codes",
     "extract.custom", "extract.date_properties", "extract.date_range", "extract.html",
     "extract.properties", "extract.regex", "split.tokenize", "format.trim", "format.prefix", "format.suffix",
     "format.date_format", "format.remove_duplicates"}

\* The columns the step created, in table order
NewColumns == Drop(DictKeys(df), Len(table0))

\* The place of the first assignment to a column in the output list
FirstAssigned(name) == Min({k \in 1..Len(StepOutputs) : StepOutputs[k] = name})

----------------------------------------------------------------------------
(* Aggregate mode in html, regex and tokenize *)

ZipOnlyWrangles == {"extract.html", "extract.regex", "split.tokenize"}

\* C21: extract.html, extract.regex and split.tokenize with several input
\* columns, all in the table, and one output column succeed, and the output
\* column holds the transform of the rows joined over all the input columns
C21_AggregateEverywhere ==
    (/\ step.wrangle \in ZipOnlyWrangles
     /\ step.wrangle = "split.tokenize" => step.method = <<"space">>
     /\ ~step.where.on
     /\ Len(StepInputs) > 1
     /\ Len(StepOutputs) = 1
     /\ \A k \in 1..Len(StepInputs) : HasColumn(table0, StepInputs[k])) =>
        /\ outcome.status = "ok"
        /\ DictGet(df, StepOutputs[1]) = Transform(TransformOf(step.wrangle), JoinedRows)

----------------------------------------------------------------------------
(* The cardinality rule in extract.custom *)

\* C22: extract.custom with more than one output column and a different
\* number of input columns fails with the cardinality error, whatever the
\* model_id list, and leaves the table as it was
C22_CustomCardinality ==
    (/\ step.wrangle = "extract.custom"
     /\ ~step.where.on
     /\ Len(StepOutputs) > 1
     /\ Len(StepOutputs) # Len(StepInputs)) =>
        /\ outcome.status = "ValueError"
        /\ outcome.msg = CardinalityMsg
        /\ df = table0

----------------------------------------------------------------------------
(* The cardinality rule, completed *)

RuleWrangles ==
    {"extract.address", "extract.attributes", "extract.brackets", "extract.codes",
     "extract.properties"}

\* The combinations of list lengths the contract allows
ValidLengths(n_in, n_out) == n_in = n_out \/ (n_out = 1 /\ n_in > 1)

\* C23: address, attributes, brackets, codes and properties fail with the
\* cardinality error for every combination of list lengths other than equal
\* lengths or several inputs with one output, among them an empty output
\* list with inputs and an empty input list with one output
C23_CardinalityComplete ==
    (/\ step.wrangle \in RuleWrangles
     /\ ~step.where.on
     /\ ~ValidLengths(Len(StepInputs), Len(StepOutputs))) =>
        /\ outcome.status = "ValueError"
        /\ outcome.msg = CardinalityMsg

----------------------------------------------------------------------------
(* extract.date_properties: several inputs, one output *)

\* C24: extract.date_properties with a valid property, several input columns,
\* all in the table, and one output column succeeds on a table of any number
\* of rows, and the output cell of each row is the list of the property of
\* that row's dates, one per input column in input-list order
C24_DatePropertiesRows ==
    (/\ step.wrangle = "extract.date_properties"
     /\ ~step.where.on
     /\ step.property \in DateProperties
     /\ Len(StepInputs) > 1
     /\ Len(StepOutputs) = 1
     /\ \A k \in 1..Len(StepInputs) : HasColumn(table0, StepInputs[k])) =>
        /\ outcome.status = "ok"
        /\ DictGet(df, StepOutputs[1]) =
              [i \in 1..NRows(table0) |->
                  ListOf([k \in 1..Len(StepInputs) |->
                            DateProperty(step.property, DictGet(table0, StepInputs[k])[i])])]

----------------------------------------------------------------------------
(* Options that take one of a list of words *)

\* The text holds the word
Mentions(text, word) ==
    \E i \in 1..Len(text) :
        i + Len(word) - 1 <= Len(text) /\ SubSeq(text, i, i + Len(word) - 1) = word

\* The unrecognised words among the options of the step
BadWords ==
    CASE step.wrangle = "extract.date_range" -> {step.range} \ Frequencies
      [] step.wrangle = "extract.date_properties" -> {step.property} \ DateProperties
      [] step.wrangle = "extract.brackets" -> Range(step.find) \ BracketTypes
      [] OTHER -> {}

\* The step is well formed but for its option: its columns are in the table
\* and its lists have lengths the contract allows
WellFormedButOption ==
    /\ ~step.where.on
    /\ \A k \in 1..Len(StepInputs) : HasColumn(table0, StepInputs[k])
    /\ step.wrangle # "extract.date_range" =>
          ValidLengths(Len(StepInputs), Len(StepOutputs))

\* C25: a step of extract.date_range, extract.date_properties or
\* extract.brackets whose range, property or find holds an unrecognised word
\* fails with a ValueError whose message holds that word, and the table is as
\* it was before the step
C25_InvalidOption ==
    (WellFormedButOption /\ BadWords # {}) =>
        /\ outcome.status = "ValueError"
        /\ \E w \in BadWords : Mentions(outcome.msg, w)
        /\ df = table0

----------------------------------------------------------------------------
(* The frame of extract.date_range *)

\* C30: after a successful extract.date_range whose output is neither the
\* start nor the end column, every column but the output holds the values it
\* held before the step
C30_DateRangeFrame ==
    (/\ step.wrangle = "extract.date_range"
     /\ outcome.status = "ok"
     /\ StepOutputs[1] \notin Range(StepInputs)) =>
        \A c \in 1..Len(table0) :
            table0[c][1] # StepOutputs[1] =>
                /\ HasColumn(df, table0[c][1])
                /\ DictGet(df, table0[c][1]) = table0[c][2]

----------------------------------------------------------------------------
(* A zipped step that fails on a later pair *)

ZippedWrangles ==
    {"extract.address", "extract.attributes", "extract.brackets", "extract.codes",
     "extract.properties"}

\* The first pair whose input column is not in the table is pair k
FirstMissing(k) ==
    /\ k \in 1..Len(StepInputs)
    /\ ~HasColumn(table0, StepInputs[k])
    /\ \A j \in 1..(k - 1) : HasColumn(table0, StepInputs[j])

\* C29: when a zipped step of address, attributes, brackets, codes or
\* properties fails because the input column of a pair after the first is
\* not in the table, the table is as it was before the step: no output of an
\* earlier pair has been created or overwritten
C29_ZippedFailureAtomic ==
    (/\ step.wrangle \in ZippedWrangles
     /\ ~step.where.on
     /\ Len(StepInputs) = Len(StepOutputs)
     /\ \E k \in 2..Len(StepInputs) : FirstMissing(k)
     /\ outcome.status = "KeyError") =>
        df = table0

----------------------------------------------------------------------------
(* format.trim with one column name *)

\* C28: format.trim with its input given as one name, of any length, of a
\* text column of the table, and its output unset or one name, succeeds and
\* writes the stripped values of that column to the output column, the input
\* column when output is unset, and leaves every other column as it was
C28_TrimOneName ==
    (/\ step.wrangle = "format.trim"
     /\ ~step.where.on
     /\ step.input.kind = "scalar"
     /\ step.output.kind \in {"none", "scalar"}
     /\ HasColumn(table0, step.input.items[1])
     /\ \A i \in 1..NRows(table0) : DictGet(table0, step.input.items[1])[i].t = "str") =>
        /\ outcome.status = "ok"
        /\ df = DictSet(table0, StepOutputs[1],
                        Transform("strip", DictGet(table0, step.input.items[1])))

----------------------------------------------------------------------------
(* Function resolution *)

\* The node at a path below a root, whatever the kinds of the nodes on the
\* way; None when a segment is missing
RECURSIVE At(_, _)
At(obj, path) ==
    IF path = <<>> THEN obj
    ELSE IF \E e \in obj.kids : e[1] = Head(path)
         THEN At(Member(obj, Head(path)), Tail(path))
         ELSE None

\* The path a plain name stands for: its segments and the default segment
PlainPath ==
    IF default_stock_functions # "" THEN Append(fn_string, default_stock_functions)
    ELSE fn_string

PlainCall == resolved # NotResolved /\ Head(fn_string) # "custom"

CustomCall ==
    resolved # NotResolved /\ Head(fn_string) = "custom" /\ Len(fn_string) > 1

\* C6: a plain name resolved with both roots supplied yields the custom
\* function when the custom root defines a function under the same dotted
\* name as a built-in one, and the built-in one when there is no override.
C6_OverridePrecedence ==
    (PlainCall /\ stock_functions # None /\ custom_functions # None
        /\ At(stock_functions, PlainPath).kind = "fn") =>
        IF At(custom_functions, PlainPath).kind = "fn"
        THEN resolved = Resolved(At(custom_functions, PlainPath))
        ELSE resolved = Resolved(At(stock_functions, PlainPath))

\* C7: a name starting with custom. resolves to the node reached from the
\* custom root by the segments after custom, through mapping and object
\* nodes alike, and fails when a segment is missing there, whatever the
\* built-in root holds.
C7_CustomOnly ==
    CustomCall =>
        IF At(custom_functions, Tail(fn_string)) # None
        THEN resolved = Resolved(At(custom_functions, Tail(fn_string)))
        ELSE resolved.status = "ValueError" /\ resolved.node = None

\* C7 witness: custom.f.f found through a dict root and an object member
\* while the built-in root holds f.f as well
C7_Witness ==
    /\ CustomCall
    /\ fn_string = <<"custom", "f", "f">>
    /\ custom_functions.kind = "dict"
    /\ At(custom_functions, <<"f">>).kind = "obj"
    /\ At(stock_functions, <<"f", "f">>).kind = "fn"
    /\ resolved.status = "ok"
    /\ resolved.node = Callable(<<"custom", "f", "f">>)

\* The root a name is resolved against, and the path followed below it
SelectedRoot ==
    IF Head(fn_string) = "custom" THEN custom_functions ELSE stock_functions

SelectedPath == IF Head(fn_string) = "custom" THEN Tail(fn_string) ELSE PlainPath

\* Some segment of the path is missing at its depth below the selected root
SegmentMissing ==
    \E n \in 1..Len(SelectedPath) : At(SelectedRoot, Take(SelectedPath, n)) = None

\* C27 (as claimed): a resolution fails with the unknown-function error
\* exactly when a segment of the path is missing below the selected root,
\* and returns the node at the end of the path in every other case
C27_UnknownFunction_AsClaimed ==
    resolved # NotResolved =>
        IF SegmentMissing
        THEN resolved.status = "ValueError" /\ resolved.msg = "Function not recognized"
        ELSE resolved = Resolved(At(SelectedRoot, SelectedPath))

\* C27 (amended): with no root supplied the resolution fails with "No
\* functions provided", and the bare name custom fails with "Custom function
\* not defined correctly"; otherwise it fails with the unknown-function error
\* exactly when a segment of the path is missing below the selected root,
\* also when that root is unset, and returns the node at the end of the path
\* when none is missing
C27_UnknownFunction ==
    resolved # NotResolved =>
        IF custom_functions = None /\ stock_functions = None
        THEN resolved.status = "ValueError" /\ resolved.msg = "No functions provided"
        ELSE IF fn_string = <<"custom">>
        THEN /\ resolved.status = "ValueError"
             /\ resolved.msg = "Custom function not defined correctly"
        ELSE IF SegmentMissing
        THEN resolved.status = "ValueError" /\ resolved.msg = "Function not recognized"
        ELSE resolved = Resolved(At(SelectedRoot, SelectedPath))

\* C27 witness: custom.f resolved with the custom root unset and a built-in
\* root that holds f
C27_Witness ==
    /\ resolved # NotResolved
    /\ fn_string = <<"custom", "f">>
    /\ custom_functions = None
    /\ At(stock_functions, <<"f">>).kind = "fn"
    /\ resolved.status = "ValueError"
    /\ resolved.msg = "Function not recognized"

----------------------------------------------------------------------------
(* Parameter binding *)

\* C8 (as claimed): a callable that does not declare `variables` never has a
\* `variables` entry in the returned mapping, and one that declares it
\* always has `variables` bound to the variable mapping given to the binder.
C8_InjectionSelectivity_AsClaimed ==
    bound # NotBound =>
        IF "variables" \in fn_args
        THEN DictHas(bound, "variables") /\ DictGet(bound, "variables") = variables
        ELSE ~DictHas(bound, "variables")

\* C8 (amended): when params holds no `variables` entry of its own, a
\* callable that does not declare `variables` has no such entry in the
\* returned mapping, and one that declares it has `variables` bound to the
\* variable mapping given to the binder, or to the `variables` entry of
\* common when common holds one.
C8_InjectionSelectivity ==
    (bound # NotBound /\ ~DictHas(params, "variables")) =>
        IF "variables" \in fn_args
        THEN /\ DictHas(bound, "variables")
             /\ DictGet(bound, "variables") =
                   IF DictHas(common_params, "variables")
                   THEN DictGet(common_params, "variables")
                   ELSE variables
        ELSE ~DictHas(bound, "variables")

\* C8 witness: fn declares `variables` but not `functions`, params sets
\* neither, common holds other keys, and the mapping has been returned
C8_Witness ==
    /\ bound # NotBound
    /\ fn_args = {"variables", "x"}
    /\ DictKeys(params) = <<"x">>
    /\ DictKeys(common_params) = <<"functions", "error">>
    /\ variables = "variables 2"
    /\ bound = << <<"x", "param:x">>, <<"variables", "variables 2">> >>

\* C9: every key present in params before the call has the same value in
\* the returned mapping.
C9_ExplicitValuesKept ==
    bound # NotBound =>
        \A i \in 1..Len(params) :
            /\ DictHas(bound, params[i][1])
            /\ DictGet(bound, params[i][1]) = params[i][2]

\* C26: in the returned mapping every key of common that fn declares has
\* the value common gives it, and a key of common that fn does not declare
\* is present only when params held it, with the value params gave it
C26_CommonInjection ==
    bound # NotBound =>
        \A i \in 1..Len(common_params) :
            LET k == common_params[i][1]
            IN  IF k \in fn_args
                THEN DictHas(bound, k) /\ DictGet(bound, k) = common_params[i][2]
                ELSE DictHas(bound, k) =>
                        /\ DictHas(params, k)
                        /\ DictGet(bound, k) = DictGet(params, k)

\* C26 witness: common holds x, which fn declares and params sets, error,
\* which fn does not declare and params sets, and variables, which fn does
\* not declare and params does not set
C26_Witness ==
    /\ bound # NotBound
    /\ fn_args = {"x"}
    /\ DictKeys(params) = <<"error", "x">>
    /\ DictKeys(common_params) = <<"variables", "error", "x">>
    /\ bound = << <<"error", "param:error">>, <<"x", "common:x">> >>

====
